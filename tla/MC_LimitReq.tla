----------------------------- MODULE MC_LimitReq -----------------------------
EXTENDS LimitReq

\* IPv4 clients: 10.0.0.1 and 10.0.0.3 share the C string "\n" (the second
\* octet is zero) and, with the hash below, a bucket; 1.2.3.4 and 1.2.3.5
\* have no zero octet and hash to different buckets.
MCAddrOf == [c \in Clients |->
                CASE c = "a" -> <<10, 0, 0, 1>>
                  [] c = "b" -> <<10, 0, 0, 3>>
                  [] c = "c" -> <<1, 2, 3, 4>>
                  [] OTHER   -> <<1, 2, 3, 5>>]

\* A stand-in for wuy_vhash64: it depends on every octet, as the real hash
\* over len bytes does.
MCHash(k) == k[1] + k[2] + k[3] + k[4]
=============================================================================
