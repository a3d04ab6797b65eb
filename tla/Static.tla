------------------------------- MODULE Static -------------------------------
(***************************************************************************)
(* The static file content module, src/src/modules/phl_static.c, and the  *)
(* descriptors it opens in one worker process.                             *)
(*                                                                         *)
(* fdFile is the worker's descriptor table: which file each descriptor    *)
(* number is open on.  openat() returns the lowest free number (POSIX), or *)
(* fails when the file is missing or the table is full (EMFILE).  A        *)
(* request keeps one descriptor as its module context                      *)
(* (r->module_ctxs[index], the descriptor cast to a pointer) and, when    *)
(* the file is sent, as r->resp.easy_fd; h2d_module_request_ctx_free()   *)
(* closes the context when the request ends.                               *)
(*                                                                         *)
(* The request layer that calls the content handlers, sends the body and  *)
(* ends requests is not in the repository: a request is taken in by        *)
(* process_headers, may get its response headers, and may end at any time *)
(* after it was taken in.  Header values are abstracted to what the code   *)
(* compares: a date equal to st_mtime or not, the number of ranges         *)
(* wuy_http_range_parse() returns.  fstat() follows the descriptor, which  *)
(* openat() without O_NOFOLLOW opened on a symlink's target, so S_IFLNK    *)
(* never shows; "other" is a device, FIFO or socket.                       *)
(***************************************************************************)
EXTENDS Integers, FiniteSetsExt

CONSTANTS
    Reqs,       \* requests of the worker
    Targets,    \* request paths, relative to conf->dir_name
    Kind,       \* [Targets -> FileKinds]: what openat(dirfd, filename) finds
    IndexKind,  \* [Targets -> FileKinds]: what openat(fd, conf->index) finds
    Confs,      \* the static{} blocks the Path() may have:
                \* [listDir: BOOLEAN, index: BOOLEAN] (index: conf->index set)
    Fds,        \* the descriptor numbers the process may use
    Preopen     \* the descriptors open before any request: stdio, conf->dirfd

FileKinds == {"reg", "dir", "other", "missing"}

ASSUME
    /\ Kind \in [Targets -> FileKinds]
    /\ IndexKind \in [Targets -> FileKinds]
    /\ Confs \subseteq [listDir: BOOLEAN, index: BOOLEAN] /\ Confs # {}
    /\ Preopen \subseteq Fds /\ Fds \subseteq Nat

Methods == {"GET", "HEAD", "POST"}
(* A date header compared with st_mtime; a missing header acts as "differ". *)
Dates == {"equal", "differ"}
(* wuy_http_range_parse(): -1 for an unsatisfiable range, else the number  *)
(* of ranges; a missing Range header and more than one range both give 200 *)
(* as 0 does, so 0 stands for them.                                         *)
RangeNums == {-1, 0, 1}
Statuses == {0, 200, 206, 304, 404, 405, 416}

(* A file the module may open: the target itself or its index file.  The  *)
(* preopened descriptors are open on Conf.                                  *)
Files == Targets \X {"self", "index"}
Conf == <<"conf">>
NoFile == <<>>

NoFd == -1      \* openat() failed
Null == 0       \* the NULL module context: descriptor 0 cast to a pointer

VARIABLES
    conf,       \* the path's struct phl_static_conf
    fdFile,     \* descriptor -> the file it is open on, NoFile when closed
    req         \* request -> its phase, method, target, response status,
                \* module context and resp.easy_fd

vars == <<conf, fdFile, req>>

Fresh == [phase |-> "idle", method |-> "GET", target |-> CHOOSE t \in Targets : TRUE,
          status |-> 0, ctx |-> Null, easyFd |-> NoFd]

(* phl_static_conf_post, lines 209-224, has opened conf->dirfd (one of    *)
(* Preopen) when the configuration was loaded; no request has begun.     *)
Init ==
    /\ conf \in Confs
    /\ fdFile = [d \in Fds |-> IF d \in Preopen THEN Conf ELSE NoFile]
    /\ req = [r \in Reqs |-> Fresh]

(* openat(): the lowest free descriptor, or failure.                        *)
OpenAt(fdf, kind) ==
    LET free == {d \in Fds : fdf[d] = NoFile}
    IN  IF kind = "missing" \/ free = {} THEN NoFd ELSE Min(free)

(* The file the request names, as the module serves it.                    *)
ServedFile(t) == IF Kind[t] = "dir" THEN <<t, "index">> ELSE <<t, "self">>

-----------------------------------------------------------------------------
(* phl_static_process_request_headers, lines 26-32, on a new request: a    *)
(* method other than GET and HEAD is answered 405.                         *)
ProcessHeaders(r) ==
    /\ req[r].phase = "idle"
    /\ \E m \in Methods, t \in Targets :
          LET ok == m \in {"GET", "HEAD"}
          IN  req' = [req EXCEPT ![r] = [Fresh EXCEPT
                        !.method = m, !.target = t,
                        !.phase = IF ok THEN "accepted" ELSE "responded",
                        !.status = IF ok THEN 0 ELSE 405]]
    /\ UNCHANGED <<conf, fdFile>>

(* The end of phl_static_generate_response_headers for request r: the      *)
(* status, the module context, resp.easy_fd and the descriptor table.      *)
Respond(r, status, ctx, easyFd, fdf) ==
    /\ req' = [req EXCEPT ![r] = [@ EXCEPT !.phase = "responded", !.status = status,
                                           !.ctx = ctx, !.easyFd = easyFd]]
    /\ fdFile' = fdf
    /\ UNCHANGED conf

(* phl_static_range_headers, lines 61-104: an unsatisfiable range is 416; *)
(* no range, several ranges or an If-Range that differs from st_mtime     *)
(* leave the 200; one range is 206.                                         *)
RangeStatus(rn, ifr) ==
    CASE rn = -1 -> 416
      [] rn = 1 /\ ifr = "equal" -> 206
      [] OTHER -> 200

(* phl_static_dir_headers, lines 34-59: the listing (read through          *)
(* fdopendir, whose closedir closes fd) is the 200 response's body; the   *)
(* listing is kept in the request's pool, not in a descriptor.             *)
DirList(r, fd, fdf) == Respond(r, 200, Null, NoFd, [fdf EXCEPT ![fd] = NoFile])

(* Lines 153-195 on fd, open on a file of kind kind: fd becomes the module *)
(* context; anything but a regular file is 404; an If-Modified-Since equal *)
(* to st_mtime is 304; otherwise fd is resp.easy_fd and a GET with a Range *)
(* gets 416, 206 (one range, If-Range absent or equal) or 200.            *)
FileHeaders(r, fd, kind, fdf) ==
    \/ /\ kind # "reg"
       /\ Respond(r, 404, fd, NoFd, fdf)
    \/ /\ kind = "reg"
       /\ \E ims \in Dates, rn \in RangeNums, ifr \in Dates :
             IF ims = "equal" THEN Respond(r, 304, fd, NoFd, fdf)
             ELSE Respond(r, IF req[r].method = "GET" THEN RangeStatus(rn, ifr) ELSE 200,
                          fd, fd, fdf)

(* Mutant of DirHeaders: the context is set to fd before the listing and  *)
(* the 404 without an index (line 153 hoisted above those branches).       *)
DirHeadersCtxEarly(r, t, fd, fdf) ==
    \/ /\ conf.listDir
       /\ Respond(r, 200, fd, NoFd, [fdf EXCEPT ![fd] = NoFile])
    \/ /\ ~conf.listDir /\ ~conf.index
       /\ Respond(r, 404, fd, NoFd, fdf)
    \/ /\ ~conf.listDir /\ conf.index
       /\ LET ifd == OpenAt(fdf, IndexKind[t])
              fdf2 == [fdf EXCEPT ![fd] = NoFile]
          IN  IF ifd = NoFd THEN Respond(r, 404, Null, NoFd, fdf2)
              ELSE FileHeaders(r, ifd, IndexKind[t], [fdf2 EXCEPT ![ifd] = <<t, "index">>])

(* Mutant of DirHeaders: index_fd is stored as the context before it is   *)
(* checked.                                                                 *)
DirHeadersCtxUnchecked(r, t, fd, fdf) ==
    \/ /\ conf.listDir
       /\ DirList(r, fd, fdf)
    \/ /\ ~conf.listDir /\ ~conf.index
       /\ Respond(r, 404, Null, NoFd, fdf)
    \/ /\ ~conf.listDir /\ conf.index
       /\ LET ifd == OpenAt(fdf, IndexKind[t])
              fdf2 == [fdf EXCEPT ![fd] = NoFile]
          IN  IF ifd = NoFd THEN Respond(r, 404, ifd, NoFd, fdf2)
              ELSE FileHeaders(r, ifd, IndexKind[t], [fdf2 EXCEPT ![ifd] = <<t, "index">>])

(* Lines 129-151, on fd open on the directory t: with list_dir the       *)
(* listing is the response (DirList); without an index the answer is 404 *)
(* and fd is left open; otherwise the index is opened relative to fd, fd  *)
(* is closed, and the index is served, or 404 if it cannot be opened.     *)
DirHeaders(r, t, fd, fdf) ==
    \/ /\ conf.listDir
       /\ DirList(r, fd, fdf)
    \/ /\ ~conf.listDir /\ ~conf.index
       /\ Respond(r, 404, Null, NoFd, fdf)
    \/ /\ ~conf.listDir /\ conf.index
       /\ LET ifd == OpenAt(fdf, IndexKind[t])
              fdf2 == [fdf EXCEPT ![fd] = NoFile]
          IN  IF ifd = NoFd THEN Respond(r, 404, Null, NoFd, fdf2)
              ELSE FileHeaders(r, ifd, IndexKind[t], [fdf2 EXCEPT ![ifd] = <<t, "index">>])

(* phl_static_generate_response_headers, lines 106-151: open the target    *)
(* relative to conf->dirfd (404 if that fails), then the directory or the  *)
(* file branch.                                                             *)
ResponseHeaders(r) ==
    /\ req[r].phase = "accepted"
    /\ LET t  == req[r].target
           fd == OpenAt(fdFile, Kind[t])
           fdf == [fdFile EXCEPT ![fd] = <<t, "self">>]
       IN  \/ /\ fd = NoFd
              /\ Respond(r, 404, Null, NoFd, fdFile)
           \/ /\ fd # NoFd /\ Kind[t] = "dir"
              /\ DirHeaders(r, t, fd, fdf)
           \/ /\ fd # NoFd /\ Kind[t] # "dir"
              /\ FileHeaders(r, fd, Kind[t], fdf)

(* The request ends: h2d_module_request_ctx_free (h2d_module.c, lines      *)
(* 197-206) calls phl_static_ctx_free (lines 198-204) when the context is  *)
(* not NULL, which closes the descriptor, then clears the context.  The    *)
(* request's slot is then free for a new request.                          *)
CtxFree(r) ==
    /\ req[r].phase # "idle"
    /\ fdFile' = IF req[r].ctx # Null THEN [fdFile EXCEPT ![req[r].ctx] = NoFile]
                 ELSE fdFile
    /\ req' = [req EXCEPT ![r] = Fresh]
    /\ UNCHANGED conf

Next ==
    \E r \in Reqs : ProcessHeaders(r) \/ ResponseHeaders(r) \/ CtxFree(r)

Spec == Init /\ [][Next]_vars

-----------------------------------------------------------------------------
TypeOK ==
    /\ conf \in Confs
    /\ fdFile \in [Fds -> Files \cup {Conf, NoFile}]
    /\ req \in [Reqs -> [phase: {"idle", "accepted", "responded"},
                         method: Methods, target: Targets, status: Statuses,
                         ctx: Fds \cup {Null}, easyFd: Fds \cup {NoFd}]]

(* The descriptor a response is sent from (resp.easy_fd) stays open on the *)
(* file the request named, its index for a directory, until the request   *)
(* ends: no other request's open, close or ctx_free reaches it, though     *)
(* descriptor numbers are reused as soon as they are closed.               *)
ServedFileIntact ==
    \A r \in Reqs :
        req[r].easyFd # NoFd => fdFile[req[r].easyFd] = ServedFile(req[r].target)

(* Every descriptor the module opened is still reachable from a request:   *)
(* it is some request's module context, which ctx_free will close.         *)
(* Otherwise it is open for the rest of the worker's life.                 *)
FdsAccounted ==
    \A d \in Fds \ Preopen :
        fdFile[d] # NoFile => \E r \in Reqs : req[r].ctx = d
=============================================================================
