------------------------------- MODULE MfsDir -------------------------------
(***************************************************************************)
(* The MFS Directory of go-mfs/dir.go under concurrent callers.            *)
(*                                                                         *)
(* One directory P (id 0), the child of the MFS root, has one child name   *)
(* "c".  Directory objects for "c" are created by Mkdir and by cacheNode   *)
(* when childUnsync loads the linked node; ids 1..MaxObjs.  The state of   *)
(* P is its lock, the link under "c" in its unixfsDir and its childDirs    *)
(* cache entry; every directory has its lock, its AccessKey field, the     *)
(* AccessKey of its unixfsDir node and (for children) a content version,   *)
(* raised by AddChild of a file into it.                                   *)
(*                                                                         *)
(* A critical section that takes no other lock is one step.  The sections  *)
(* that take a second lock are split where they wait: P.GetNode holds P    *)
(* while sync takes the child's lock, ForEachEntry holds P while it calls  *)
(* the child's GetNode.  Flush of a child returns the child's node and     *)
(* only then calls P.closeChild, which takes P's lock.                     *)
(*                                                                         *)
(* A link or a node is the record [obj, ver, key]: which directory object  *)
(* it was made from, at which content version, and the AccessKey stored    *)
(* in it.                                                                  *)
(***************************************************************************)
EXTENDS Naturals, FiniteSets

CONSTANTS
    Threads,   \* goroutines calling into MFS
    MaxOps,    \* calls each goroutine makes
    MaxObjs,   \* Directory objects ever made for the name "c"
    MaxVer,    \* AddChild calls per child directory
    Key,       \* the AccessKey of P
    NoKey,     \* an empty AccessKey
    None       \* no thread, no link, no object

P == 0
Objs == 1..MaxObjs
Dirs == {P} \cup Objs
Nodes == [obj : Objs, ver : 0..MaxVer, key : {Key, NoKey}]

VARIABLES
    lock,       \* lock[d]: the goroutine holding d.lock, or None
    akey,       \* akey[d]: d.AccessKey
    nodeKey,    \* nodeKey[d]: AccessKey of d's unixfsDir node
    ver,        \* ver[o]: content version of child directory o
    made,       \* Directory objects made so far for "c"
    link,       \* P's link "c": a node, or None
    cached,     \* P.childDirs["c"]: an object, or None
    superseded, \* links "c" that a later change of the link replaced
    pc,         \* pc[t]: "idle", or where t waits inside a call
    nd,         \* nd[t]: the child node t got from GetNode
    handle,     \* handle[t]: the *Directory t last got for "c", or None
    ops         \* calls t has made

vars == <<lock, akey, nodeKey, ver, made, link, cached, superseded,
          pc, nd, handle, ops>>

Free(d) == lock[d] = None

\* mutant: the node always takes d.AccessKey
KeyForNoKeep(d) == akey[d]

\* GetNode's key rule: the node keeps its AccessKey, else gets d.AccessKey
KeyFor(d) == IF nodeKey[d] = NoKey THEN akey[d] ELSE nodeKey[d]

\* GetNode of a child directory, which caches no directories of its own:
\* the node with its key set, at its version
ChildGetNode(o) == [obj |-> o, ver |-> ver[o], key |-> KeyFor(o)]

\* AddUnixFSChild / RemoveChild on the name "c": P's link changes, and a
\* link it replaces is superseded
AddUnixFSChild(v) ==
    /\ link' = v
    /\ superseded' = IF link # None /\ link # v
                     THEN superseded \cup {link} ELSE superseded

\* updateChild: AddUnixFSChild and the modification time
UpdateChild(v) == AddUnixFSChild(v)

\* NewDirectory for the next object, from node n: its own fields start
\* empty, its unixfsDir holds n
NewDirectory(n) ==
    /\ made' = made + 1
    /\ ver' = [ver EXCEPT ![made + 1] = n.ver]
    /\ nodeKey' = [nodeKey EXCEPT ![made + 1] = n.key]

\* cacheNode: a new Directory for the node, stored in childDirs
CacheNode(n) ==
    /\ made < MaxObjs
    /\ NewDirectory(n)
    /\ cached' = made + 1

\* childUnsync: childDirs, else the link, loaded and cached by childNode;
\* Found says whether it returns a directory, Resolved which one
Found == cached # None \/ link # None
Resolved == IF cached # None THEN cached ELSE made + 1
ChildUnsync ==
    IF cached = None /\ link # None
    THEN CacheNode(link)
    ELSE UNCHANGED <<made, ver, nodeKey, cached>>

Idle(t) == pc[t] = "idle" /\ ops[t] < MaxOps

Call(t) == ops' = [ops EXCEPT ![t] = @ + 1]

----------------------------------------------------------------------------
(* P.GetNode: lock P, sync, the node, unlock *)

\* lock P; sync starts on the cached child: an empty AccessKey becomes P's
GetNodeLock(t) ==
    /\ Idle(t) /\ Free(P)
    /\ lock' = [lock EXCEPT ![P] = t]
    /\ akey' = IF cached # None /\ akey[cached] = NoKey
               THEN [akey EXCEPT ![cached] = akey[P]] ELSE akey
    /\ pc' = [pc EXCEPT ![t] = IF cached # None THEN "gnChild" ELSE "gnDone"]
    /\ Call(t)
    /\ UNCHANGED <<nodeKey, ver, made, link, cached, superseded, nd, handle>>

\* sync: dir.GetNode() under the child's lock
GetNodeChild(t) ==
    /\ pc[t] = "gnChild" /\ Free(cached)
    /\ nd' = [nd EXCEPT ![t] = ChildGetNode(cached)]
    /\ nodeKey' = [nodeKey EXCEPT ![cached] = KeyFor(cached)]
    /\ pc' = [pc EXCEPT ![t] = "gnUpdate"]
    /\ UNCHANGED <<lock, akey, ver, made, link, cached, superseded, handle, ops>>

\* sync: dir.AccessKey = nil and updateChild
GetNodeUpdate(t) ==
    /\ pc[t] = "gnUpdate"
    /\ akey' = [akey EXCEPT ![cached] = NoKey]
    /\ UpdateChild(nd[t])
    /\ pc' = [pc EXCEPT ![t] = "gnDone"]
    /\ UNCHANGED <<lock, nodeKey, ver, made, cached, nd, handle, ops>>

\* P's node gets P's key if it has none, is added, and P is unlocked
GetNodeDone(t) ==
    /\ pc[t] = "gnDone"
    /\ nodeKey' = [nodeKey EXCEPT ![P] = KeyFor(P)]
    /\ lock' = [lock EXCEPT ![P] = None]
    /\ pc' = [pc EXCEPT ![t] = "idle"]
    /\ UNCHANGED <<akey, ver, made, link, cached, superseded, nd, handle, ops>>

----------------------------------------------------------------------------
(* Flush of a child directory t holds *)

\* mutant: closeChild is reached still holding the child's lock
FlushGetNodeHoldLock(t) ==
    /\ Idle(t) /\ handle[t] # None /\ Free(handle[t])
    /\ nd' = [nd EXCEPT ![t] = ChildGetNode(handle[t])]
    /\ nodeKey' = [nodeKey EXCEPT ![handle[t]] = KeyFor(handle[t])]
    /\ lock' = [lock EXCEPT ![handle[t]] = t]
    /\ pc' = [pc EXCEPT ![t] = "close"]
    /\ Call(t)
    /\ UNCHANGED <<akey, ver, made, link, cached, superseded, handle>>

\* Flush: d.GetNode() under the child's lock, which is then released
FlushGetNode(t) ==
    /\ Idle(t) /\ handle[t] # None /\ Free(handle[t])
    /\ nd' = [nd EXCEPT ![t] = ChildGetNode(handle[t])]
    /\ nodeKey' = [nodeKey EXCEPT ![handle[t]] = KeyFor(handle[t])]
    /\ pc' = [pc EXCEPT ![t] = "close"]
    /\ Call(t)
    /\ UNCHANGED <<lock, akey, ver, made, link, cached, superseded, handle>>

\* d.parent.closeChild(d.name, nd, true): closeChildUpdate under P's lock
\* (updateChild, flushCurrentNode), then P's own parent, the root
CloseChild(t) ==
    /\ pc[t] = "close" /\ Free(P)
    /\ UpdateChild(nd[t])
    /\ pc' = [pc EXCEPT ![t] = "idle"]
    /\ UNCHANGED <<lock, akey, nodeKey, ver, made, cached, nd, handle, ops>>

----------------------------------------------------------------------------
(* Calls that hold P's lock only *)

\* Mkdir: an existing child is returned with os.ErrExist (childUnsync may
\* cache it); otherwise an empty directory is added, linked and cached
Mkdir(t) ==
    /\ Idle(t) /\ Free(P)
    /\ IF Found
       THEN /\ ChildUnsync
            /\ handle' = [handle EXCEPT ![t] = Resolved]
            /\ UNCHANGED <<link, superseded>>
       ELSE /\ made < MaxObjs
            /\ AddUnixFSChild([obj |-> made + 1, ver |-> 0, key |-> NoKey])
            /\ NewDirectory([obj |-> made + 1, ver |-> 0, key |-> NoKey])
            /\ cached' = made + 1
            /\ handle' = [handle EXCEPT ![t] = made + 1]
    /\ Call(t)
    /\ UNCHANGED <<lock, akey, pc, nd>>

\* mutant: Unlink leaves childDirs alone
UnlinkKeepCache(t) ==
    /\ Idle(t) /\ Free(P)
    /\ AddUnixFSChild(None)
    /\ Call(t)
    /\ UNCHANGED <<lock, akey, nodeKey, ver, made, cached, pc, nd, handle>>

\* Unlink: drop the cache entries, then RemoveChild (an error if no link)
Unlink(t) ==
    /\ Idle(t) /\ Free(P)
    /\ cached' = None
    /\ AddUnixFSChild(None)
    /\ Call(t)
    /\ UNCHANGED <<lock, akey, nodeKey, ver, made, pc, nd, handle>>

\* Child: childUnsync under P's lock; the caller keeps what it returns
Child(t) ==
    /\ Idle(t) /\ Free(P)
    /\ ChildUnsync
    /\ handle' = [handle EXCEPT ![t] = IF Found THEN Resolved ELSE @]
    /\ Call(t)
    /\ UNCHANGED <<lock, akey, link, superseded, pc, nd>>

\* Uncache: drop the cache entries only
Uncache(t) ==
    /\ Idle(t) /\ Free(P)
    /\ cached' = None
    /\ Call(t)
    /\ UNCHANGED <<lock, akey, nodeKey, ver, made, link, superseded,
                   pc, nd, handle>>

\* AddChild of a new file into the child directory t holds, under its lock
AddChild(t) ==
    /\ Idle(t) /\ handle[t] # None /\ Free(handle[t])
    /\ ver[handle[t]] < MaxVer
    /\ ver' = [ver EXCEPT ![handle[t]] = @ + 1]
    /\ Call(t)
    /\ UNCHANGED <<lock, akey, nodeKey, made, link, cached, superseded,
                   pc, nd, handle>>

\* ForEachEntry: lock P; for the link "c", childUnsync ...
ForEachEntryLock(t) ==
    /\ Idle(t) /\ Free(P) /\ link # None
    /\ lock' = [lock EXCEPT ![P] = t]
    /\ ChildUnsync
    /\ pc' = [pc EXCEPT ![t] = "feChild"]
    /\ Call(t)
    /\ UNCHANGED <<akey, link, superseded, nd, handle>>

\* ... then c.GetNode() under the child's lock, and unlock P
ForEachEntryChild(t) ==
    /\ pc[t] = "feChild" /\ Free(cached)
    /\ nodeKey' = [nodeKey EXCEPT ![cached] = KeyFor(cached)]
    /\ lock' = [lock EXCEPT ![P] = None]
    /\ pc' = [pc EXCEPT ![t] = "idle"]
    /\ UNCHANGED <<akey, ver, made, link, cached, superseded, nd, handle, ops>>

----------------------------------------------------------------------------
\* P exists with its key; "c" is not yet made; P's node has no key yet
Init ==
    /\ lock = [d \in Dirs |-> None]
    /\ akey = [d \in Dirs |-> IF d = P THEN Key ELSE NoKey]
    /\ nodeKey = [d \in Dirs |-> NoKey]
    /\ ver = [o \in Objs |-> 0]
    /\ made = 0
    /\ link = None
    /\ cached = None
    /\ superseded = {}
    /\ pc = [t \in Threads |-> "idle"]
    /\ nd = [t \in Threads |-> None]
    /\ handle = [t \in Threads |-> None]
    /\ ops = [t \in Threads |-> 0]

Next ==
    \E t \in Threads :
        \/ GetNodeLock(t) \/ GetNodeChild(t) \/ GetNodeUpdate(t)
        \/ GetNodeDone(t) \/ FlushGetNode(t) \/ CloseChild(t)
        \/ Mkdir(t) \/ Unlink(t) \/ Child(t) \/ Uncache(t) \/ AddChild(t)
        \/ ForEachEntryLock(t) \/ ForEachEntryChild(t)

\* A goroutine inside a call keeps running: its steps without a lock are
\* weakly fair; a sync.Mutex is eventually granted to a goroutine that
\* keeps waiting (starvation mode), so lock-taking steps are strongly fair.
\* Starting a call is up to the caller and is not fair.
Fairness ==
    \A t \in Threads :
        /\ SF_vars(GetNodeChild(t)) /\ SF_vars(CloseChild(t))
        /\ SF_vars(ForEachEntryChild(t))
        /\ WF_vars(GetNodeUpdate(t)) /\ WF_vars(GetNodeDone(t))

Spec == Init /\ [][Next]_vars

FairSpec == Spec /\ Fairness

----------------------------------------------------------------------------
(* Properties *)

\* Every call into the directory returns: the locks are taken parent before
\* child (GetNode's sync, ForEachEntry) and closeChild takes the parent's
\* lock only after the child's GetNode released the child's, so no two
\* goroutines wait on each other.
CallsReturn == \A t \in Threads : pc[t] # "idle" ~> pc[t] = "idle"

\* A child directory keeps its parent's key.  P's GetNode gives a cached
\* child without an AccessKey P's, and links the node the child's GetNode
\* makes (sync, dir.go:406-419): that link carries P's key.  A later Flush
\* of a child whose link carries P's key makes a node with P's key too,
\* although sync reset the child's AccessKey field to nil after its
\* GetNode, and wrote the field holding P's lock only.
ChildKeepsParentKey ==
    [][/\ \A t \in Threads :
            pc[t] = "gnUpdate" /\ pc'[t] = "gnDone" => link'.key = akey[P]
       /\ \A t \in Threads :
            (/\ pc[t] = "idle" /\ pc'[t] = "close"
             /\ link # None /\ link.obj = handle[t] /\ link.key = akey[P])
               => nd'[t].key = akey[P]]_vars

\* A child in P's childDirs cache is linked in P's node: sync re-adds every
\* cached child, so a cached but unlinked name would come back.
CacheIsLinked == cached # None => link # None

\* The link under "c" never goes back to a node that a later change of the
\* link (an Unlink, or a newer flush) replaced.
NoSupersededLink == link \notin superseded

====
