---------------------------- MODULE EncryptedAdd ----------------------------
(***************************************************************************)
(* Adding a file with an access key, and getting it back.                  *)
(*                                                                         *)
(* Add: the DagBuilderHelper of go-unixfs/importer/helpers/dagbuilder.go   *)
(* reads the splitter's chunks through prepareNext / Next / Done and turns *)
(* each into a leaf.  The balanced layout does it with NewLeafDataNode,    *)
(* which encrypts the chunk under sha256(AccessKey), checks the block size *)
(* limit and records the filestore offset of raw leaves; the trickle       *)
(* layout does it with FillNodeLayer / GetNextDataNode / NewLeaf.  The two *)
(* layout drivers are not under src/: they are the two actions that call   *)
(* these helpers, in the order the layouts call them.                      *)
(*                                                                         *)
(* Get: a file of one chunk is a single leaf, which is the root.  It is    *)
(* read either through coreapi UnixfsAPI.Get (ipfs cat) or, inside a       *)
(* directory, through get.go and the tar Writer's writeFile.               *)
(*                                                                         *)
(* A chunk is a short byte sequence; the AES helpers are AesCrypt's.       *)
(***************************************************************************)
EXTENDS Naturals, Sequences, SequencesExt

CONSTANTS
    BlockSize, ByteBits, Md5,   \* as in AesCrypt; Md5 is over DerivedKeys
    NoData,          \* a nil []byte
    UserKeys,        \* access keys a user may type
    NoKey,           \* the empty access key ""
    Sha,             \* Sha[k]: sha256.Sum256(k), a derived key
    ChunkSeqs,       \* what the splitter may yield, chunk by chunk
    Confs,           \* add/get options: layout, key, raw leaves, nocopy, getter
    Admissible(_, _),\* which (options, chunks) pairs a run looks at
    BlockSizeLimit,  \* helpers.BlockSizeLimit (1 MiB)
    Maxlinks,        \* db.maxlinks
    Err, Panic, Denied   \* an error return, a runtime panic, a refused key

DerivedKeys == DOMAIN Md5

Aes == INSTANCE AesCrypt WITH Keys <- DerivedKeys, NilKey <- NoKey

VARIABLES
    conf,      \* the options of this add and get
    chunks,    \* the chunks the splitter yields before EOF or its error
    splitErr,  \* whether the splitter fails after them instead of EOF
    db,        \* DagBuilderHelper: pos (chunks read), nextData, recvdErr, offset
    leaves,    \* the leaves built, in file order: data, raw, filestore offset
    phase,     \* "start", "build", "built", "failed", "got"
    getKey,    \* the access key given to get
    out        \* what get returns

vars == <<conf, chunks, splitErr, db, leaves, phase, getKey, out>>

NoPos == -1   \* a leaf that is not a FilestoreNode

\* the file content: the chunks in order
Content == FlattenSeq(chunks)

Keyed == conf.key # NoKey

----------------------------------------------------------------------------
(* DagBuilderHelper *)

\* mutants: a splitter error taken for io.EOF; io.EOF kept as an error
PrepareNextErrAsEof(d) ==
    IF d.nextData # NoData \/ d.recvdErr THEN d
    ELSE IF d.pos < Len(chunks)
         THEN [d EXCEPT !.pos = @ + 1, !.nextData = chunks[d.pos + 1]]
         ELSE d
PrepareNextEofAsErr(d) ==
    IF d.nextData # NoData \/ d.recvdErr THEN d
    ELSE IF d.pos < Len(chunks)
         THEN [d EXCEPT !.pos = @ + 1, !.nextData = chunks[d.pos + 1]]
         ELSE [d EXCEPT !.recvdErr = TRUE]

\* prepareNext: read one chunk unless one is waiting or an error was seen;
\* io.EOF leaves both nextData and recvdErr nil
PrepareNext(d) ==
    IF d.nextData # NoData \/ d.recvdErr THEN d
    ELSE IF d.pos < Len(chunks)
         THEN [d EXCEPT !.pos = @ + 1, !.nextData = chunks[d.pos + 1]]
         ELSE [d EXCEPT !.recvdErr = splitErr]

\* Done: prepareNext, then no error and no data
Done(d) == ~PrepareNext(d).recvdErr /\ PrepareNext(d).nextData = NoData

\* Next: prepareNext and consume nextData; the result is the chunk, nil
\* (NoData) at the end, or Err
NextResult(d) ==
    LET p == PrepareNext(d)
    IN  [db |-> [p EXCEPT !.nextData = NoData],
         data |-> IF p.recvdErr THEN Err ELSE p.nextData]

\* the chunk NewLeafDataNode stores: encrypted when an access key is set
\* (a nil chunk encrypts like an empty one)
LeafBlock(data) ==
    LET bytes == IF data = NoData THEN <<>> ELSE data
    IN  IF Keyed THEN Aes!AesEncrypt(bytes, Sha[conf.key]) ELSE bytes

\* NewLeafNode: refuse data over the limit, else a raw or a UnixFS leaf
NewLeafNode(data) ==
    IF Len(data) > BlockSizeLimit THEN Err
    ELSE [data |-> data, raw |-> conf.raw, at |-> NoPos]

\* mutant: the offset is not advanced
ProcessFileStoreNoAdvance(node, offset, dataSize) ==
    IF conf.nocopy /\ node.raw
    THEN [node |-> [node EXCEPT !.at = offset], offset |-> offset]
    ELSE [node |-> node, offset |-> offset]

\* ProcessFileStore: with a full path (nocopy), a raw leaf gets the current
\* offset, and the offset advances by dataSize
ProcessFileStore(node, offset, dataSize) ==
    IF conf.nocopy /\ node.raw
    THEN [node |-> [node EXCEPT !.at = offset], offset |-> offset + dataSize]
    ELSE [node |-> node, offset |-> offset]

\* NewLeafDataNode: Next, encrypt, NewLeafNode, ProcessFileStore
NewLeafDataNode(d) ==
    LET n == NextResult(d)
    IN  IF n.data = Err THEN [db |-> n.db, node |-> Err]
        ELSE LET data == LeafBlock(n.data)
                 leaf == NewLeafNode(data)
             IN  IF leaf = Err THEN [db |-> n.db, node |-> Err]
                 ELSE LET fs == ProcessFileStore(leaf, d.offset, Len(data))
                      IN  [db |-> [n.db EXCEPT !.offset = fs.offset],
                           node |-> fs.node]

\* NewLeaf (trickle): the limit check, then a raw leaf or a TRaw block
NewLeaf(data) ==
    IF Len(data) > BlockSizeLimit THEN Err
    ELSE [data |-> data, raw |-> conf.raw, at |-> NoPos]

\* GetNextDataNode: Next, then NewLeaf of the chunk
GetNextDataNode(d) ==
    LET n == NextResult(d)
    IN  [db |-> n.db,
         node |-> IF n.data = Err THEN Err ELSE NewLeaf(n.data)]

\* FillNodeLayer: add leaves while the node has room and Done is false;
\* n is node.NumChildren()
RECURSIVE FillNodeLayer(_, _, _)
FillNodeLayer(d, kids, n) ==
    IF n >= Maxlinks THEN [db |-> d, kids |-> kids, err |-> FALSE]
    ELSE IF Done(d) THEN [db |-> PrepareNext(d), kids |-> kids, err |-> FALSE]
    ELSE LET g == GetNextDataNode(d)
         IN  IF g.node = Err THEN [db |-> g.db, kids |-> kids, err |-> TRUE]
             ELSE FillNodeLayer(g.db, Append(kids, g.node), n + 1)

----------------------------------------------------------------------------
(* The layouts' use of the helpers *)

\* one call of the layout: the balanced layout builds one leaf with
\* NewLeafDataNode, the trickle layout fills a new node with FillNodeLayer
LayoutStep(d) ==
    IF conf.layout = "balanced"
    THEN LET r == NewLeafDataNode(d)
         IN  [db |-> r.db, err |-> r.node = Err,
              kids |-> IF r.node = Err THEN <<>> ELSE <<r.node>>]
    ELSE FillNodeLayer(d, <<>>, 0)

Apply(r) ==
    /\ db' = r.db
    /\ leaves' = leaves \o r.kids
    /\ phase' = IF r.err THEN "failed" ELSE "build"

\* the first call, made before any Done check: balanced.Layout starts with
\* NewLeafDataNode, trickle.Layout with FillNodeLayer(root)
LayoutStart ==
    /\ phase = "start"
    /\ Apply(LayoutStep(db))
    /\ UNCHANGED <<conf, chunks, splitErr, getKey, out>>

\* every further call, each after a Done check that returned false
LayoutNext ==
    /\ phase = "build"
    /\ ~Done(db)
    /\ Apply(LayoutStep(PrepareNext(db)))
    /\ UNCHANGED <<conf, chunks, splitErr, getKey, out>>

\* the layout returns once Done is true
LayoutEnd ==
    /\ phase = "build"
    /\ Done(db)
    /\ db' = PrepareNext(db)
    /\ phase' = "built"
    /\ UNCHANGED <<conf, chunks, splitErr, leaves, getKey, out>>

----------------------------------------------------------------------------
(* Get of a file of one leaf, which is the root *)

RootLeaf == leaves[1]

\* crypto.AesDecrypt under the node's AccessKey, nil as an error
Decrypted(data) == Aes!AesDecrypt(data, Sha[conf.key])

\* mutant: no IsKeyEqual check
CoreapiGetNoKeyCheck(gk) ==
    IF RootLeaf.raw THEN Panic
    ELSE IF ~Keyed THEN RootLeaf.data
    ELSE IF Decrypted(RootLeaf.data) = NoData THEN Err
    ELSE Decrypted(RootLeaf.data)

\* UnixfsAPI.Get: nd.(*mdag.ProtoNode) without a check, then, when the node
\* has an AccessKey, IsKeyEqual(sha256(accKey), n.AccessKey) and AesDecrypt
CoreapiGet(gk) ==
    IF RootLeaf.raw THEN Panic
    ELSE IF ~Keyed THEN RootLeaf.data
    ELSE IF Sha[gk] # Sha[conf.key] THEN Denied
    ELSE IF Decrypted(RootLeaf.data) = NoData THEN Err
    ELSE Decrypted(RootLeaf.data)

\* get of the enclosing directory (get.go Run checks the directory's key),
\* then Writer.WriteNode on the file: a RawNode is written as stored; a
\* ProtoNode goes to writeFile, which decrypts and pads with zero bytes up
\* to the stored size written in the header
DirGet(gk) ==
    IF Keyed /\ Sha[gk] # Sha[conf.key] THEN Denied
    ELSE IF RootLeaf.raw \/ ~Keyed THEN RootLeaf.data
    ELSE IF Decrypted(RootLeaf.data) = NoData THEN Err
    ELSE LET orig == Decrypted(RootLeaf.data)
         IN  orig \o [i \in 1..(Len(RootLeaf.data) - Len(orig)) |-> 0]

Get ==
    /\ phase = "built"
    /\ conf.layout = "balanced"
    /\ Len(leaves) = 1
    /\ \E gk \in UserKeys \cup {NoKey} :
          /\ getKey' = gk
          /\ out' = IF conf.get = "api" THEN CoreapiGet(gk) ELSE DirGet(gk)
    /\ phase' = "got"
    /\ UNCHANGED <<conf, chunks, splitErr, db, leaves>>

----------------------------------------------------------------------------
Init ==
    /\ conf \in Confs
    /\ chunks \in ChunkSeqs
    /\ Admissible(conf, chunks)
    /\ splitErr \in BOOLEAN
    /\ db = [pos |-> 0, nextData |-> NoData, recvdErr |-> FALSE, offset |-> 0]
    /\ leaves = <<>>
    /\ phase = "start"
    /\ getKey = NoKey
    /\ out = NoData

Next == LayoutStart \/ LayoutNext \/ LayoutEnd \/ Get

Spec == Init /\ [][Next]_vars

----------------------------------------------------------------------------
(* Properties *)

\* a leaf as get would read it back: decrypted under the add key when one
\* was set; a failed decryption reads as a byte no chunk holds
Decode(data) ==
    IF ~Keyed THEN data
    ELSE IF Decrypted(data) = NoData THEN <<-1>> ELSE Decrypted(data)

\* The leaves the layout builds through prepareNext/Next/Done, read back,
\* are always a prefix of the file, in order and without a repeat; and a
\* layout that returns without error has read the whole file and met no
\* splitter error (the io.EOF / error distinction of prepareNext).
LeavesAreFile ==
    LET got == FlattenSeq([i \in DOMAIN leaves |-> Decode(leaves[i].data)])
    IN  /\ IsPrefix(got, Content)
        /\ phase \in {"built", "got"} => got = Content /\ ~splitErr

\* Adding fails only when the splitter fails or a chunk it yields is over
\* BlockSizeLimit (NewLeafNode / NewLeaf refuse only those).
FailsOnlyOnError ==
    phase = "failed" =>
        splitErr \/ \E i \in DOMAIN chunks : Len(chunks[i]) > BlockSizeLimit

\* A filestore leaf (ProcessFileStore) records where its chunk starts in
\* the file: the length of the chunks before it.
FilestoreOffset ==
    \A i \in DOMAIN leaves :
        leaves[i].at # NoPos =>
            leaves[i].at = Len(FlattenSeq(SubSeq(chunks, 1, i - 1)))

\* Get returns the file added when the key matches the add key or none was
\* set, and refuses a wrong key.
GetMatchesAccess ==
    phase = "got" =>
        out = IF Keyed /\ getKey # conf.key THEN Denied ELSE Content

====
