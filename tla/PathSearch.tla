----------------------------- MODULE PathSearch -----------------------------
(***************************************************************************)
(* h2d_conf_host_search_pathname (src/src/h2d_conf_host.c): the Path() of  *)
(* a host that serves a request's path.  Strings are sequences of          *)
(* characters; a C string's terminator is the character NUL, which no      *)
(* string holds.                                                           *)
(***************************************************************************)
EXTENDS Integers, Sequences, SequencesExt, FiniteSetsExt

CONSTANTS
    NUL             \* the terminating '\0', distinct from every character

(* Byte k of a C string: its characters, then the terminator.  memcmp      *)
(* stops at the first difference, and a pathname holds no NUL, so bytes   *)
(* past a shorter name's terminator never decide the result.               *)
Byte(s, k) == IF k <= Len(s) THEN s[k] ELSE NUL

(* memcmp(a, b, n) == 0                                                     *)
MemEq(a, b, n) == \A k \in 1 .. n : Byte(a, k) = Byte(b, k)

(* The result when the host has no Path(): conf_host->default_path.        *)
DefaultPath == 0
(* The result when no Path() matches: NULL.                                 *)
NoPath == -1

(* Mutant of SearchFrom: the pathname is compared over strlen(name) bytes. *)
RECURSIVE SearchFromNameLen(_, _, _, _)
SearchFromNameLen(paths, i, j, name) ==
    CASE i > Len(paths) -> NoPath
      [] j > Len(paths[i]) -> SearchFromNameLen(paths, i + 1, 1, name)
      [] MemEq(paths[i][j], name, Len(name)) -> i
      [] OTHER -> SearchFromNameLen(paths, i, j + 1, name)

(* The two loops of lines 16-25, from path i and its pathname j on: the    *)
(* first pathname whose strlen(pathname) bytes equal the name's gives its  *)
(* path.                                                                    *)
RECURSIVE SearchFrom(_, _, _, _)
SearchFrom(paths, i, j, name) ==
    CASE i > Len(paths) -> NoPath
      [] j > Len(paths[i]) -> SearchFrom(paths, i + 1, 1, name)
      [] MemEq(paths[i][j], name, Len(paths[i][j])) -> i
      [] OTHER -> SearchFrom(paths, i, j + 1, name)

(* h2d_conf_host_search_pathname, lines 9-26: paths is conf_host->paths,   *)
(* each path the sequence of its pathnames; no Path() (paths == NULL) is   *)
(* the empty sequence.                                                      *)
SearchPathname(paths, name) ==
    IF paths = <<>> THEN DefaultPath ELSE SearchFrom(paths, 1, 1, name)

(* The path a request is served by, as the configuration reads: the first *)
(* Path() in the host's order one of whose pathnames is a prefix of the    *)
(* request's path; the default path when the host has none.                *)
FirstMatch(paths, name) ==
    LET matching == {i \in 1 .. Len(paths) :
                        \E j \in 1 .. Len(paths[i]) : IsPrefix(paths[i][j], name)}
    IN  CASE paths = <<>> -> DefaultPath
          [] matching = {} -> NoPath
          [] OTHER -> Min(matching)
=============================================================================
