--------------------------- MODULE MC_EncryptedAdd ---------------------------
(* Small instances of EncryptedAdd: bytes of 2 bits, cipher blocks of 2     *)
(* bytes, one user key u1 besides a wrong key u2 and the empty key.         *)
EXTENDS EncryptedAdd

CONSTANTS u1, u2, none, s1, s2, s0

\* sha256 of the keys, md5 of the derived keys
ShaOf == (u1 :> s1) @@ (u2 :> s2) @@ (none :> s0)
Md5Of == (s1 :> <<1, 2>>) @@ (s2 :> <<3, 0>>) @@ (s0 :> <<2, 1>>)

Options(layouts, keys, raws, nocopys, gets) ==
    [layout : layouts, key : keys, raw : raws, nocopy : nocopys, get : gets]

\* all options: the access key is u1 or none
AllConfs ==
    Options({"balanced", "trickle"}, {u1, none}, BOOLEAN, BOOLEAN, {"api", "dir"})

\* files of up to two chunks of one or two bytes, and the empty file
SmallFiles ==
    {<<>>, <<<<1>>>>, <<<<2, 3>>>>, <<<<1>>, <<2, 3>>>>, <<<<0, 3>>, <<1>>>>}

\* the combinations the passing run checks; what it leaves out fails, for
\* the reasons the README lists: keyed trickle adds, keyed nocopy adds of
\* raw leaves, a keyed empty file, keyed gets through a directory and ipfs
\* cat of a raw leaf
PassAdmissible(c, f) ==
    /\ c.key # none => /\ c.layout = "balanced"
                       /\ ~(c.raw /\ c.nocopy)
                       /\ f # <<>>
                       /\ c.get = "api"
    /\ c.get = "api" => ~c.raw

\* a trickle add with a key
TrickleKeyAdmissible(c, f) == c.layout = "trickle" /\ c.key = u1

\* get of a keyed one-chunk file inside a directory
DirKeyAdmissible(c, f) ==
    c.layout = "balanced" /\ c.key = u1 /\ c.get = "dir" /\ ~c.nocopy /\ f # <<>>

====
