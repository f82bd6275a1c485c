------------------------------ MODULE BitswapGet ------------------------------
(***************************************************************************)
(* The requesting side of the go-bitswap exchange coordinator             *)
(* (bitswap.go): GetBlocks calls and their wait-loop goroutines, block     *)
(* receipt from the network (ReceiveMessage) and from the user (HasBlock), *)
(* peer connection notices and the closing of the process.                 *)
(*                                                                         *)
(* The want manager and the notification bus are not under src/; they are *)
(* modelled from their contract.  The want list is a set of                *)
(* <<cid, session id>> entries (an entry per session that wants the cid); *)
(* a subscription is the set of keys it still waits for (AddSubOnceEach)   *)
(* plus the buffer of blocks published to it.  The provider-query side    *)
(* (bs.findKeys and its consumer) is the module ProviderQuery; here a      *)
(* send on findKeys completes.                                             *)
(***************************************************************************)
EXTENDS Naturals, Sequences, FiniteSets, SequencesExt, BagsExt

CONSTANTS
    Cids,         \* block identifiers
    Peers,        \* remote peers
    Keys,         \* Keys[r]: the key list of GetBlocks call r
    Holds,        \* Holds[p]: the blocks remote peer p can serve
    Local,        \* blocks the user may add with HasBlock
    MaxMsgs,      \* bound on counters.messagesRecvd
    PutMayFail,   \* whether blockstore.Put may return an error
    NoBlk         \* no block

Reqs == DOMAIN Keys

ASSUME /\ \A r \in Reqs : Keys[r] \in Seq(Cids)
       /\ Holds \in [Peers -> SUBSET Cids]
       /\ Local \subseteq Cids
       /\ MaxMsgs \in Nat
       /\ PutMayFail \in BOOLEAN
       /\ NoBlk \notin Cids

VARIABLES
    closing,      \* bs.process is closing
    notifShut,    \* teardown ran notif.Shutdown()
    store,        \* the blockstore
    wl,           \* the want manager's want list: <<cid, session id>>
    sessID,       \* bs.sessID
    rpc,          \* per GetBlocks call r: where its goroutine is
    mses,         \* its session id
    remaining,    \* its remaining set
    sub,          \* keys its subscription still waits for
    promise,      \* blocks published to it, not yet read from promise
    delayArmed,   \* findProvsDelayCh # nil
    reqArmed,     \* findProvsReqCh # nil
    pending,      \* the block it is sending on out
    cancelled,    \* the caller's context is cancelled
    got,          \* blocks the caller has read from out
    connected,    \* connected peers
    net,          \* block messages in flight: <<peer, cid>>
    recv,         \* receipt goroutines: a bag of <<cid, step>>
    localAdded,   \* blocks HasBlock was called with
    counters,     \* bs.counters: blocksRecvd, dupBlocksRecvd, messagesRecvd
    putErrs       \* blocks whose receiveBlockFrom returned the Put error

reqVars == <<rpc, mses, remaining, sub, promise, delayArmed, reqArmed,
             pending, cancelled, got>>
netVars == <<connected, net, recv, localAdded, counters, putErrs>>
vars == <<closing, notifShut, store, wl, sessID, rpc, mses, remaining, sub,
          promise, delayArmed, reqArmed, pending, cancelled, got, connected,
          net, recv, localAdded, counters, putErrs>>

RecvSteps == {"count", "put", "publish", "closewait"}

TypeOK ==
    /\ closing \in BOOLEAN /\ notifShut \in BOOLEAN
    /\ store \subseteq Cids
    /\ wl \subseteq Cids \X Nat
    /\ sessID \in Nat
    /\ rpc \in [Reqs -> {"init", "subscribe", "loop", "send", "exited",
                                "error"}]
    /\ mses \in [Reqs -> Nat]
    /\ remaining \in [Reqs -> SUBSET Cids]
    /\ sub \in [Reqs -> SUBSET Cids]
    /\ promise \in [Reqs -> Seq(Cids)]
    /\ delayArmed \in [Reqs -> BOOLEAN] /\ reqArmed \in [Reqs -> BOOLEAN]
    /\ pending \in [Reqs -> Cids \cup {NoBlk}]
    /\ cancelled \in [Reqs -> BOOLEAN]
    /\ got \in [Reqs -> Seq(Cids)]
    /\ connected \subseteq Peers
    /\ net \subseteq Peers \X Cids
    /\ IsABag(recv) /\ BagToSet(recv) \subseteq Cids \X RecvSteps
    /\ localAdded \subseteq Local
    /\ counters \in [blocksRecvd : Nat, dupBlocksRecvd : Nat,
                     messagesRecvd : Nat]
    /\ putErrs \subseteq Cids

\* GetWantlist(): the cids of the want list
WantCids == {e[1] : e \in wl}

Live(r) == rpc[r] \in {"loop", "send"}

-----------------------------------------------------------------------------
(* GetBlocks and its wait-loop goroutine                                   *)

\* bs.GetBlocks(ctx, keys): the two early returns: an empty key list gets
\* a closed channel, a closing process the error "bitswap is closed".
GetBlocks(r) ==
    /\ rpc[r] = "init"
    /\ \/ Keys[r] = <<>> /\ rpc' = [rpc EXCEPT ![r] = "exited"]
       \/ Keys[r] # <<>> /\ closing /\ rpc' = [rpc EXCEPT ![r] = "error"]
       \/ Keys[r] # <<>> /\ ~closing /\ rpc' = [rpc EXCEPT ![r] = "subscribe"]
    /\ UNCHANGED <<closing, notifShut, store, wl, sessID>>
    /\ UNCHANGED <<mses, remaining, sub, promise, delayArmed, reqArmed,
                   pending, cancelled, got>>
    /\ UNCHANGED netVars

\* Mutant of Subscribe: the bus's Subscribe does not check for Shutdown, so
\* a late subscription stays open on the shut-down bus.
SubscribeNoCancelCheck(r) ==
    /\ rpc[r] = "subscribe"
    /\ sub' = [sub EXCEPT ![r] = ToSet(Keys[r])]
    /\ sessID' = sessID + 1
    /\ mses' = [mses EXCEPT ![r] = sessID + 1]
    /\ wl' = wl \cup (ToSet(Keys[r]) \X {sessID + 1})
    /\ remaining' = [remaining EXCEPT ![r] = ToSet(Keys[r])]
    /\ delayArmed' = [delayArmed EXCEPT ![r] = TRUE]
    /\ rpc' = [rpc EXCEPT ![r] = "loop"]
    /\ UNCHANGED <<closing, notifShut, store, promise, reqArmed, pending,
                   cancelled, got>>
    /\ UNCHANGED netVars

\* The rest of GetBlocks, after the closing check (which Close may follow):
\* notifications.Subscribe (a closed promise once the bus is shut down),
\* getNextSessionID, wm.WantBlocks, remaining, and the goroutine starting
\* its timer and entering the select loop.
Subscribe(r) ==
    /\ rpc[r] = "subscribe"
    /\ sub' = [sub EXCEPT ![r] = IF notifShut THEN {} ELSE ToSet(Keys[r])]
    /\ sessID' = sessID + 1
    /\ mses' = [mses EXCEPT ![r] = sessID + 1]
    /\ wl' = wl \cup (ToSet(Keys[r]) \X {sessID + 1})
    /\ remaining' = [remaining EXCEPT ![r] = ToSet(Keys[r])]
    /\ delayArmed' = [delayArmed EXCEPT ![r] = TRUE]
    /\ rpc' = [rpc EXCEPT ![r] = "loop"]
    /\ UNCHANGED <<closing, notifShut, store, promise, reqArmed, pending,
                   cancelled, got>>
    /\ UNCHANGED netVars

\* case <-findProvsDelayCh: arm the send of keys[0] to bs.findKeys
FindProvsDelay(r) ==
    /\ rpc[r] = "loop" /\ delayArmed[r]
    /\ delayArmed' = [delayArmed EXCEPT ![r] = FALSE]
    /\ reqArmed' = [reqArmed EXCEPT ![r] = TRUE]
    /\ UNCHANGED <<closing, notifShut, store, wl, sessID>>
    /\ UNCHANGED <<rpc, mses, remaining, sub, promise, pending, cancelled, got>>
    /\ UNCHANGED netVars

\* case findProvsReqCh <- req: keys[0] handed to the provider query manager
FindProvsRequest(r) ==
    /\ rpc[r] = "loop" /\ reqArmed[r]
    /\ reqArmed' = [reqArmed EXCEPT ![r] = FALSE]
    /\ UNCHANGED <<closing, notifShut, store, wl, sessID>>
    /\ UNCHANGED <<rpc, mses, remaining, sub, promise, delayArmed, pending,
                   cancelled, got>>
    /\ UNCHANGED netVars

\* Mutant of ReceivePromise: the CancelWants for the received block is
\* missing.
ReceivePromiseNoCancel(r) ==
    /\ rpc[r] = "loop" /\ promise[r] # <<>>
    /\ LET blk == Head(promise[r]) IN
       /\ promise' = [promise EXCEPT ![r] = Tail(@)]
       /\ remaining' = [remaining EXCEPT ![r] = @ \ {blk}]
       /\ pending' = [pending EXCEPT ![r] = blk]
    /\ delayArmed' = [delayArmed EXCEPT ![r] = FALSE]
    /\ reqArmed' = [reqArmed EXCEPT ![r] = FALSE]
    /\ rpc' = [rpc EXCEPT ![r] = "send"]
    /\ UNCHANGED <<closing, notifShut, store, wl, sessID, mses, sub,
                   cancelled, got>>
    /\ UNCHANGED netVars

\* case blk, ok := <-promise, ok: stop the timer, disarm the find request,
\* CancelWants({blk}, mses), remaining.Remove(blk), then send blk on out.
ReceivePromise(r) ==
    /\ rpc[r] = "loop" /\ promise[r] # <<>>
    /\ LET blk == Head(promise[r]) IN
       /\ promise' = [promise EXCEPT ![r] = Tail(@)]
       /\ wl' = wl \ {<<blk, mses[r]>>}
       /\ remaining' = [remaining EXCEPT ![r] = @ \ {blk}]
       /\ pending' = [pending EXCEPT ![r] = blk]
    /\ delayArmed' = [delayArmed EXCEPT ![r] = FALSE]
    /\ reqArmed' = [reqArmed EXCEPT ![r] = FALSE]
    /\ rpc' = [rpc EXCEPT ![r] = "send"]
    /\ UNCHANGED <<closing, notifShut, store, sessID, mses, sub, cancelled, got>>
    /\ UNCHANGED netVars

\* The goroutine returns: the deferred CancelWants(remaining, mses),
\* close(out) and cancel(); its subscription ends with it.
Exit(r) ==
    /\ wl' = wl \ (remaining[r] \X {mses[r]})
    /\ rpc' = [rpc EXCEPT ![r] = "exited"]
    /\ sub' = [sub EXCEPT ![r] = {}]
    /\ promise' = [promise EXCEPT ![r] = <<>>]
    /\ delayArmed' = [delayArmed EXCEPT ![r] = FALSE]
    /\ reqArmed' = [reqArmed EXCEPT ![r] = FALSE]
    /\ pending' = [pending EXCEPT ![r] = NoBlk]
    /\ UNCHANGED <<closing, notifShut, store, sessID, mses, remaining,
                   cancelled, got>>
    /\ UNCHANGED netVars

\* case blk, ok := <-promise, !ok: the subscription closed, after every
\* key was delivered once or because notif.Shutdown closed it, and its
\* buffered blocks were read.
PromiseClosed(r) ==
    /\ rpc[r] = "loop" /\ promise[r] = <<>> /\ sub[r] = {}
    /\ Exit(r)

\* Mutant of CtxDone: out <- blk is a plain send, without the ctx.Done()
\* case.
CtxDoneLoopOnly(r) ==
    /\ rpc[r] = "loop" /\ cancelled[r]
    /\ Exit(r)

\* case <-ctx.Done(), in the loop or in the select around out <- blk
CtxDone(r) ==
    /\ Live(r) /\ cancelled[r]
    /\ Exit(r)

\* Mutant of SendOut: pending is reset before it is sent.
SendOutAfterReset(r) ==
    /\ rpc[r] = "send"
    /\ got' = [got EXCEPT ![r] = Append(@, NoBlk)]
    /\ pending' = [pending EXCEPT ![r] = NoBlk]
    /\ rpc' = [rpc EXCEPT ![r] = "loop"]
    /\ UNCHANGED <<closing, notifShut, store, wl, sessID>>
    /\ UNCHANGED <<mses, remaining, sub, promise, delayArmed, reqArmed,
                   cancelled>>
    /\ UNCHANGED netVars

\* case out <- blk: the caller reads the block
SendOut(r) ==
    /\ rpc[r] = "send"
    /\ got' = [got EXCEPT ![r] = Append(@, pending[r])]
    /\ pending' = [pending EXCEPT ![r] = NoBlk]
    /\ rpc' = [rpc EXCEPT ![r] = "loop"]
    /\ UNCHANGED <<closing, notifShut, store, wl, sessID>>
    /\ UNCHANGED <<mses, remaining, sub, promise, delayArmed, reqArmed,
                   cancelled>>
    /\ UNCHANGED netVars

\* The caller cancels the context it passed to GetBlocks.
CancelRequest(r) ==
    /\ Live(r) /\ ~cancelled[r]
    /\ cancelled' = [cancelled EXCEPT ![r] = TRUE]
    /\ UNCHANGED <<closing, notifShut, store, wl, sessID>>
    /\ UNCHANGED <<rpc, mses, remaining, sub, promise, delayArmed, reqArmed,
                   pending, got>>
    /\ UNCHANGED netVars
-----------------------------------------------------------------------------
(* Block receipt: ReceiveMessage starts one goroutine per block that runs  *)
(* updateReceiveCounters and then receiveBlockFrom; HasBlock runs          *)
(* receiveBlockFrom in the caller's goroutine.                             *)

\* A connected peer that holds a block we want sends it.  This is the
\* remote node's engine; the message may arrive after the want is gone.
PeerSendsBlock(p, c) ==
    /\ p \in connected /\ c \in Holds[p] /\ c \in WantCids
    /\ <<p, c>> \notin net
    /\ counters.messagesRecvd + Cardinality(net) < MaxMsgs
    /\ net' = net \cup {<<p, c>>}
    /\ UNCHANGED <<closing, notifShut, store, wl, sessID>>
    /\ UNCHANGED reqVars
    /\ UNCHANGED <<connected, recv, localAdded, counters, putErrs>>

\* bs.ReceiveMessage(ctx, p, incoming): count the message, give it to the
\* engine, start the goroutine for its block.
ReceiveMessage(p, c) ==
    /\ <<p, c>> \in net
    /\ net' = net \ {<<p, c>>}
    /\ counters' = [counters EXCEPT !.messagesRecvd = @ + 1]
    /\ recv' = BagAdd(recv, <<c, "count">>)
    /\ UNCHANGED <<closing, notifShut, store, wl, sessID>>
    /\ UNCHANGED reqVars
    /\ UNCHANGED <<connected, localAdded, putErrs>>

\* bs.HasBlock(blk): receiveBlockFrom(blk, "")
HasBlock(c) ==
    /\ c \in Local \ localAdded
    /\ localAdded' = localAdded \cup {c}
    /\ recv' = BagAdd(recv, <<c, "put">>)
    /\ UNCHANGED <<closing, notifShut, store, wl, sessID>>
    /\ UNCHANGED reqVars
    /\ UNCHANGED <<connected, net, counters, putErrs>>

\* Move one receipt goroutine for c from step from to step to ("done"
\* ends it).
Step(c, from, to) ==
    recv' = IF to = "done" THEN BagRemove(recv, <<c, from>>)
            ELSE BagAdd(BagRemove(recv, <<c, from>>), <<c, to>>)

\* updateReceiveCounters(b): blockstore.Has(cid), then under counterLk
\* blocksRecvd++ and, when Has said it was stored, dupBlocksRecvd++.
UpdateReceiveCounters(c) ==
    /\ BagIn(<<c, "count">>, recv)
    /\ LET has == c \in store IN
       /\ counters' = [counters EXCEPT
                         !.blocksRecvd = @ + 1,
                         !.dupBlocksRecvd = IF has THEN @ + 1 ELSE @]
    /\ Step(c, "count", "put")
    /\ UNCHANGED <<closing, notifShut, store, wl, sessID>>
    /\ UNCHANGED reqVars
    /\ UNCHANGED <<connected, net, localAdded, putErrs>>

\* Mutant of ReceiveBlockPut: the goroutine ends after the Put, without
\* publishing the block.
ReceiveBlockPutNoPublish(c) ==
    /\ BagIn(<<c, "put">>, recv)
    /\ \/ /\ closing
          /\ Step(c, "put", "done")
          /\ UNCHANGED <<store, putErrs>>
       \/ /\ ~closing /\ PutMayFail
          /\ putErrs' = putErrs \cup {c}
          /\ Step(c, "put", "done")
          /\ UNCHANGED store
       \/ /\ ~closing
          /\ store' = store \cup {c} /\ UNCHANGED putErrs
          /\ Step(c, "put", "done")
    /\ UNCHANGED <<closing, notifShut, wl, sessID>>
    /\ UNCHANGED reqVars
    /\ UNCHANGED <<connected, net, localAdded, counters>>

\* Mutant of ReceiveBlockPut: a failed Put is logged and the block is
\* published anyway.
ReceiveBlockPutIgnoreErr(c) ==
    /\ BagIn(<<c, "put">>, recv)
    /\ \/ /\ closing
          /\ Step(c, "put", "done")
          /\ UNCHANGED <<store, putErrs>>
       \/ /\ ~closing /\ PutMayFail
          /\ putErrs' = putErrs \cup {c}
          /\ Step(c, "put", "publish")
          /\ UNCHANGED store
       \/ /\ ~closing
          /\ store' = store \cup {c} /\ UNCHANGED putErrs
          /\ Step(c, "put", "publish")
    /\ UNCHANGED <<closing, notifShut, wl, sessID>>
    /\ UNCHANGED reqVars
    /\ UNCHANGED <<connected, net, localAdded, counters>>

\* receiveBlockFrom: "bitswap is closed" when closing, else
\* blockstore.Put(blk); a failed Put returns its error before Publish.
ReceiveBlockPut(c) ==
    /\ BagIn(<<c, "put">>, recv)
    /\ \/ /\ closing
          /\ Step(c, "put", "done")
          /\ UNCHANGED <<store, putErrs>>
       \/ /\ ~closing /\ PutMayFail
          /\ putErrs' = putErrs \cup {c}
          /\ Step(c, "put", "done")
          /\ UNCHANGED store
       \/ /\ ~closing
          /\ store' = store \cup {c} /\ UNCHANGED putErrs
          /\ Step(c, "put", "publish")
    /\ UNCHANGED <<closing, notifShut, wl, sessID>>
    /\ UNCHANGED reqVars
    /\ UNCHANGED <<connected, net, localAdded, counters>>

\* Mutant of Publish: subscriptions keep a key after it was delivered
\* (AddSub instead of AddSubOnceEach).
PublishKeepSub(c) ==
    /\ BagIn(<<c, "publish">>, recv)
    /\ LET subs == IF notifShut THEN {}
                   ELSE {r \in Reqs : Live(r) /\ c \in sub[r]}
       IN promise' = [r \in Reqs |->
                        IF r \in subs THEN Append(promise[r], c)
                                      ELSE promise[r]]
    /\ \/ Step(c, "publish", "done")
       \/ closing /\ Step(c, "publish", "closewait")
    /\ UNCHANGED <<closing, notifShut, store, wl, sessID>>
    /\ UNCHANGED <<rpc, mses, remaining, sub, delayArmed, reqArmed, pending,
                   cancelled, got>>
    /\ UNCHANGED <<connected, net, localAdded, counters, putErrs>>

\* The rest of receiveBlockFrom.  notifications.Publish(blk): every live
\* subscription still waiting for the key gets the block, once; after
\* Shutdown nothing is delivered.  SessionsForBlock finds no session (no
\* code under src/ creates one) and engine.AddBlock changes nothing
\* modelled here.  Then select { newBlocks <- cid | <-Closing(): Close() }:
\* the provide collector always takes from newBlocks while it runs (see
\* ProvideQueue), so the send completes; when closing, the goroutine may
\* take the other case and wait in process.Close() for the teardown.
Publish(c) ==
    /\ BagIn(<<c, "publish">>, recv)
    /\ LET subs == IF notifShut THEN {}
                   ELSE {r \in Reqs : Live(r) /\ c \in sub[r]}
       IN /\ promise' = [r \in Reqs |->
                           IF r \in subs THEN Append(promise[r], c)
                                         ELSE promise[r]]
          /\ sub' = [r \in Reqs |->
                       IF r \in subs THEN sub[r] \ {c} ELSE sub[r]]
    /\ \/ Step(c, "publish", "done")
       \/ closing /\ Step(c, "publish", "closewait")
    /\ UNCHANGED <<closing, notifShut, store, wl, sessID>>
    /\ UNCHANGED <<rpc, mses, remaining, delayArmed, reqArmed, pending,
                   cancelled, got>>
    /\ UNCHANGED <<connected, net, localAdded, counters, putErrs>>

\* return bs.process.Close(): returns once the teardown has run
CloseReturns(c) ==
    /\ BagIn(<<c, "closewait">>, recv) /\ notifShut
    /\ Step(c, "closewait", "done")
    /\ UNCHANGED <<closing, notifShut, store, wl, sessID>>
    /\ UNCHANGED reqVars
    /\ UNCHANGED <<connected, net, localAdded, counters, putErrs>>

\* bs.PeerConnected(p) / bs.PeerDisconnected(p): wm and engine notified
PeerConnected(p) ==
    /\ p \notin connected
    /\ connected' = connected \cup {p}
    /\ UNCHANGED <<closing, notifShut, store, wl, sessID>>
    /\ UNCHANGED reqVars
    /\ UNCHANGED <<net, recv, localAdded, counters, putErrs>>

PeerDisconnected(p) ==
    /\ p \in connected
    /\ connected' = connected \ {p}
    /\ UNCHANGED <<closing, notifShut, store, wl, sessID>>
    /\ UNCHANGED reqVars
    /\ UNCHANGED <<net, recv, localAdded, counters, putErrs>>

\* bs.Close(): the process starts closing; the workers return (module
\* ProviderQuery) and the teardown runs notif.Shutdown().
Close ==
    /\ ~closing
    /\ closing' = TRUE
    /\ UNCHANGED <<notifShut, store, wl, sessID>>
    /\ UNCHANGED <<reqVars, netVars>>

\* notif.Shutdown(): every subscription is closed (its buffered blocks can
\* still be read) and later Subscribes get a closed promise.  The process
\* runs it in WithTeardown only after every child goroutine of px has
\* returned (bitswap.go:86-90), the workers of module ProviderQuery among
\* them, which may never happen (run pq_close_hangs); those goroutines are
\* not in this module, so the teardown may run any time after Close, or
\* never.
Teardown ==
    /\ closing /\ ~notifShut
    /\ notifShut' = TRUE
    /\ sub' = [r \in Reqs |-> {}]
    /\ UNCHANGED <<closing, store, wl, sessID>>
    /\ UNCHANGED <<rpc, mses, remaining, promise, delayArmed, reqArmed,
                   pending, cancelled, got>>
    /\ UNCHANGED netVars

-----------------------------------------------------------------------------
Init ==
    /\ closing = FALSE /\ notifShut = FALSE
    /\ store = {}
    /\ wl = {}
    /\ sessID = 0
    /\ rpc = [r \in Reqs |-> "init"]
    /\ mses = [r \in Reqs |-> 0]
    /\ remaining = [r \in Reqs |-> {}]
    /\ sub = [r \in Reqs |-> {}]
    /\ promise = [r \in Reqs |-> <<>>]
    /\ delayArmed = [r \in Reqs |-> FALSE]
    /\ reqArmed = [r \in Reqs |-> FALSE]
    /\ pending = [r \in Reqs |-> NoBlk]
    /\ cancelled = [r \in Reqs |-> FALSE]
    /\ got = [r \in Reqs |-> <<>>]
    /\ connected = {}
    /\ net = {}
    /\ recv = EmptyBag
    /\ localAdded = {}
    /\ counters = [blocksRecvd |-> 0, dupBlocksRecvd |-> 0, messagesRecvd |-> 0]
    /\ putErrs = {}

RequestStep(r) ==
    \/ GetBlocks(r) \/ Subscribe(r) \/ FindProvsDelay(r) \/ FindProvsRequest(r)
    \/ ReceivePromise(r) \/ PromiseClosed(r) \/ CtxDone(r) \/ SendOut(r)
    \/ CancelRequest(r)

\* A step the call r takes by itself once GetBlocks was entered: the rest
\* of GetBlocks, then its wait loop's select cases other than the
\* caller's read of out and the timer.
LoopStep(r) ==
    \/ Subscribe(r) \/ ReceivePromise(r) \/ PromiseClosed(r) \/ CtxDone(r)
    \/ FindProvsRequest(r)

ReceiptStep(c) ==
    \/ UpdateReceiveCounters(c) \/ ReceiveBlockPut(c) \/ Publish(c)
    \/ CloseReturns(c)

Next ==
    \/ \E r \in Reqs : RequestStep(r)
    \/ \E c \in Cids : ReceiptStep(c) \/ HasBlock(c)
    \/ \E p \in Peers, c \in Cids : PeerSendsBlock(p, c) \/ ReceiveMessage(p, c)
    \/ \E p \in Peers : PeerConnected(p) \/ PeerDisconnected(p)
    \/ Close \/ Teardown

\* The node's goroutines run when they can: the wait loops, the network
\* handler that calls ReceiveMessage, the receipt goroutines.  The caller
\* keeps reading out until it cancels.  The remote peers, the user and the
\* timers get no fairness, nor does the teardown, which waits for the
\* workers (see Teardown).
Fairness ==
    /\ \A r \in Reqs :
         /\ WF_vars(LoopStep(r))
         /\ WF_vars(~cancelled[r] /\ SendOut(r))
    /\ \A c \in Cids : WF_vars(ReceiptStep(c))
    /\ WF_vars(\E p \in Peers, c \in Cids : ReceiveMessage(p, c))

Spec == Init /\ [][Next]_vars
FairSpec == Spec /\ Fairness
-----------------------------------------------------------------------------
(* Properties                                                              *)

\* GetBlocks: every block the caller reads was asked for, and none is read
\* twice, although several peers may send it and concurrent receipts may
\* each publish it (the subscription takes each key once).
DeliveredOnce ==
    \A r \in Reqs :
        /\ IsInjective(got[r])
        /\ ToSet(got[r]) \subseteq ToSet(Keys[r])

\* The want list holds exactly the keys the live GetBlocks loops still wait
\* for, each under its loop's session id: a key read from the promise is
\* cancelled at once (CancelWants in the promise case) and the rest when
\* the loop returns (the deferred CancelWants(remaining)).
WantlistIsRemaining ==
    wl = UNION {remaining[r] \X {mses[r]} : r \in {q \in Reqs : Live(q)}}

\* A block received while a live GetBlocks loop waits for it reaches that
\* loop's caller unless the caller cancels, bitswap closes or every Put of
\* the block failed: the receipt goroutine stores and publishes it, the
\* loop reads the promise and sends the block on out.
ArrivalReachesCaller ==
    \A r \in Reqs : \A c \in ToSet(Keys[r]) :
        (Live(r) /\ c \in sub[r] /\ ~closing
            /\ (BagIn(<<c, "count">>, recv) \/ BagIn(<<c, "put">>, recv)))
          ~> (c \in ToSet(got[r]) \/ cancelled[r] \/ closing
              \/ c \in putErrs)

\* A GetBlocks loop whose caller cancels the context returns, and so
\* retracts its wants, also while it is blocked sending on out.
CancelledRequestEnds ==
    \A r \in Reqs : cancelled[r] ~> rpc[r] = "exited"

\* Once the teardown has shut the notification bus down, every GetBlocks
\* call already past its closing check ends, also one that subscribes only
\* after the shutdown: its promise closes, its loop returns and retracts
\* its wants (spec section 4.1: shutdown always terminates the loop).
CloseEndsLoops ==
    notifShut ~> \A r \in Reqs : rpc[r] \in {"init", "exited", "error"}

\* A block a GetBlocks caller reads is in the blockstore: a receipt whose
\* Put failed returns before Publish and wakes no waiter (spec section 4.2,
\* failure mode).
DeliveredIsStored ==
    \A r \in Reqs : ToSet(got[r]) \subseteq store

=============================================================================
