----------------------------- MODULE ProviderQuery -----------------------------
(***************************************************************************)
(* The provider-discovery pipeline and the worker lifecycle of go-bitswap  *)
(* (workers.go, bitswap.go): GetBlocks loops and the rebroadcast worker    *)
(* send blockRequests on the bounded channel bs.findKeys; the single       *)
(* providerQueryManager goroutine drops requests whose context is done or  *)
(* whose cid is already in its active-query set, and otherwise starts a    *)
(* search goroutine that removes the cid when it ends.  Close() makes the  *)
(* process closing, ctx is cancelled, every worker started by              *)
(* startWorkers returns, and only then does the teardown run               *)
(* notif.Shutdown().                                                       *)
(*                                                                         *)
(* A GetBlocks loop appears here only through its provider-search timer,   *)
(* its send on findKeys and its end (the rest is module BitswapGet).  The  *)
(* connections a search makes are PeerConnected in BitswapGet.            *)
(*                                                                         *)
(* getBlocksOfProviders reads the cids the network announces on            *)
(* bs.addprovs and starts a GetBlock goroutine for each, with the bitswap  *)
(* context; those calls are the requests in ProvReqs.                      *)
(***************************************************************************)
EXTENDS Naturals, Sequences, FiniteSets, SequencesExt

CONSTANTS
    Cids,         \* block identifiers
    Keys,         \* Keys[r]: the key list of GetBlocks call r
    FindKeysCap,  \* capacity of bs.findKeys (sizeBatchRequestChan = 32)
    RB,           \* owner of the requests of the rebroadcast worker
    NoBlk,        \* no block
    ProvReqs,     \* the GetBlock calls getBlocksOfProviders starts
    AddProvsCap   \* capacity of bs.addprovs (10)

Reqs == DOMAIN Keys
Owners == Reqs \cup {RB}

\* the workers startWorkers runs besides providerQueryManager and
\* rebroadcastWorker; each returns on ctx.Done() or px.Closing()
OtherWorkers == {"taskWorker", "provideCollector", "provideWorker",
                 "getBlocksOfProviders"}

ASSUME /\ \A r \in Reqs : Keys[r] \in Seq(Cids) \ {<<>>}
       /\ FindKeysCap \in Nat \ {0}
       /\ RB \notin Reqs /\ NoBlk \notin Cids
       /\ ProvReqs \subseteq Reqs /\ \A r \in ProvReqs : Len(Keys[r]) = 1
       /\ AddProvsCap \in Nat \ {0}

VARIABLES
    closing,      \* bs.process is closing
    ctxDone,      \* the bitswap context is cancelled
    notifShut,    \* the teardown has run
    rpc,          \* GetBlocks loop r: "init", "delay", "armed", "sent",
                  \* "exited" or "error"; a call of ProvReqs is first
                  \* "unannounced", then "queued" while its cid is on addprovs
    addprovs,     \* bs.addprovs: the calls whose cids wait on it, in order
    findKeys,     \* bs.findKeys: sequence of [cid, owner]
    pqmUp,        \* providerQueryManager is running
    kset,         \* its active-query set
    searching,    \* searching[c]: search goroutines running for c
    rb,           \* rebroadcastWorker: [pc, cid]
    others        \* the other workers still running

vars == <<closing, ctxDone, notifShut, rpc, addprovs, findKeys, pqmUp, kset,
          searching, rb, others>>

TypeOK ==
    /\ closing \in BOOLEAN /\ ctxDone \in BOOLEAN /\ notifShut \in BOOLEAN
    /\ rpc \in [Reqs -> {"unannounced", "queued", "init", "delay", "armed",
                         "sent", "exited", "error"}]
    /\ addprovs \in Seq(ProvReqs) /\ Len(addprovs) <= AddProvsCap
    /\ findKeys \in Seq([cid : Cids, owner : Owners])
    /\ Len(findKeys) <= FindKeysCap
    /\ pqmUp \in BOOLEAN
    /\ kset \subseteq Cids
    /\ searching \in [Cids -> Nat]
    /\ rb \in [pc : {"idle", "send", "exited"}, cid : Cids \cup {NoBlk}]
    /\ others \subseteq OtherWorkers

Live(r) == rpc[r] \in {"delay", "armed", "sent"}

\* wm.wl.Entries(): the keys of the live GetBlocks calls (an
\* over-approximation: some may already have been received)
WantCids == UNION {ToSet(Keys[r]) : r \in {q \in Reqs : Live(q)}}

\* e.Ctx.Done(): a GetBlocks request's context ends with its loop (the
\* deferred cancel); the rebroadcast worker's with ctx or with the worker.
ReqCtxDone(e) ==
    IF e.owner = RB THEN ctxDone \/ rb.pc = "exited"
                    ELSE rpc[e.owner] = "exited"

-----------------------------------------------------------------------------
(* The GetBlocks loop, as far as findKeys is concerned                     *)

\* bs.GetBlocks: "bitswap is closed" when closing, else start the loop
GetBlocks(r) ==
    /\ rpc[r] = "init"
    /\ rpc' = [rpc EXCEPT ![r] = IF closing THEN "error" ELSE "delay"]
    /\ UNCHANGED <<addprovs, closing, ctxDone, notifShut, findKeys, pqmUp, kset,
                   searching, rb, others>>

\* case <-findProvsDelayCh
FindProvsDelay(r) ==
    /\ rpc[r] = "delay"
    /\ rpc' = [rpc EXCEPT ![r] = "armed"]
    /\ UNCHANGED <<addprovs, closing, ctxDone, notifShut, findKeys, pqmUp, kset,
                   searching, rb, others>>

\* Mutant of FindProvsRequest: the send does not wait for room.
FindProvsRequestUnbounded(r) ==
    /\ rpc[r] = "armed"
    /\ findKeys' = Append(findKeys, [cid |-> Keys[r][1], owner |-> r])
    /\ rpc' = [rpc EXCEPT ![r] = "sent"]
    /\ UNCHANGED <<addprovs, closing, ctxDone, notifShut, pqmUp, kset, searching, rb,
                   others>>

\* case findProvsReqCh <- req: blocks while findKeys is full
FindProvsRequest(r) ==
    /\ rpc[r] = "armed"
    /\ Len(findKeys) < FindKeysCap
    /\ findKeys' = Append(findKeys, [cid |-> Keys[r][1], owner |-> r])
    /\ rpc' = [rpc EXCEPT ![r] = "sent"]
    /\ UNCHANGED <<addprovs, closing, ctxDone, notifShut, pqmUp, kset, searching, rb,
                   others>>

\* The loop returns: every block arrived, the caller cancelled, or the
\* promise closed (after notif.Shutdown it always does).
LoopEnds(r) ==
    /\ Live(r)
    /\ rpc' = [rpc EXCEPT ![r] = "exited"]
    /\ UNCHANGED <<addprovs, closing, ctxDone, notifShut, findKeys, pqmUp, kset,
                   searching, rb, others>>

-----------------------------------------------------------------------------
(* providerQueryManager and its search goroutines                          *)

\* Mutant of ProviderQuery: kset is not consulted.
ProviderQueryNoDedup ==
    /\ pqmUp /\ findKeys # <<>>
    /\ LET e == Head(findKeys) IN
       \/ /\ ReqCtxDone(e)
          /\ UNCHANGED <<kset, searching>>
       \/ /\ ~ReqCtxDone(e)
          /\ kset' = kset \cup {e.cid}
          /\ searching' = [searching EXCEPT ![e.cid] = @ + 1]
    /\ findKeys' = Tail(findKeys)
    /\ UNCHANGED <<addprovs, closing, ctxDone, notifShut, rpc, pqmUp, rb, others>>

\* Mutant of ProviderQuery: return instead of continue on a request whose
\* context is done.
ProviderQueryReturnOnDone ==
    /\ pqmUp /\ findKeys # <<>>
    /\ LET e == Head(findKeys) IN
       \/ /\ ReqCtxDone(e)
          /\ pqmUp' = FALSE
          /\ UNCHANGED <<kset, searching>>
       \/ /\ ~ReqCtxDone(e) /\ e.cid \in kset
          /\ UNCHANGED <<kset, searching, pqmUp>>
       \/ /\ ~ReqCtxDone(e) /\ e.cid \notin kset
          /\ kset' = kset \cup {e.cid}
          /\ searching' = [searching EXCEPT ![e.cid] = @ + 1]
          /\ UNCHANGED pqmUp
    /\ findKeys' = Tail(findKeys)
    /\ UNCHANGED <<addprovs, closing, ctxDone, notifShut, rpc, rb, others>>

\* case e := <-bs.findKeys: skip it if e.Ctx is done or e.Cid is in kset
\* (checked and added under activeLk); else add it and start the search.
ProviderQuery ==
    /\ pqmUp /\ findKeys # <<>>
    /\ LET e == Head(findKeys) IN
       \/ /\ ReqCtxDone(e) \/ e.cid \in kset
          /\ UNCHANGED <<kset, searching>>
       \/ /\ ~ReqCtxDone(e) /\ e.cid \notin kset
          /\ kset' = kset \cup {e.cid}
          /\ searching' = [searching EXCEPT ![e.cid] = @ + 1]
    /\ findKeys' = Tail(findKeys)
    /\ UNCHANGED <<addprovs, closing, ctxDone, notifShut, rpc, pqmUp, rb, others>>

\* case <-ctx.Done(): the provider query manager returns
ProviderQueryExit ==
    /\ pqmUp /\ ctxDone
    /\ pqmUp' = FALSE
    /\ UNCHANGED <<addprovs, closing, ctxDone, notifShut, rpc, findKeys, kset,
                   searching, rb, others>>

\* The search goroutine: FindProvidersAsync under a providerRequestTimeout
\* child context, ConnectTo every provider found, wg.Wait(), then remove
\* the cid from kset under activeLk.
SearchDone(c) ==
    /\ searching[c] > 0
    /\ searching' = [searching EXCEPT ![c] = @ - 1]
    /\ kset' = kset \ {c}
    /\ UNCHANGED <<addprovs, closing, ctxDone, notifShut, rpc, findKeys, pqmUp, rb,
                   others>>

-----------------------------------------------------------------------------
(* rebroadcastWorker                                                       *)

\* case <-broadcastSignal.C: continue when the want list is empty, else
\* pick entries[rand.Intn(len(entries))].
RebroadcastTick ==
    /\ rb.pc = "idle" /\ WantCids # {}
    /\ \E c \in WantCids : rb' = [pc |-> "send", cid |-> c]
    /\ UNCHANGED <<addprovs, closing, ctxDone, notifShut, rpc, findKeys, pqmUp, kset,
                   searching, others>>

\* bs.findKeys <- &blockRequest{...}: a plain send, no select on ctx
RebroadcastSend ==
    /\ rb.pc = "send"
    /\ Len(findKeys) < FindKeysCap
    /\ findKeys' = Append(findKeys, [cid |-> rb.cid, owner |-> RB])
    /\ rb' = [pc |-> "idle", cid |-> NoBlk]
    /\ UNCHANGED <<addprovs, closing, ctxDone, notifShut, rpc, pqmUp, kset, searching,
                   others>>

\* case <-parent.Done(): return
RebroadcastExit ==
    /\ rb.pc = "idle" /\ ctxDone
    /\ rb' = [rb EXCEPT !.pc = "exited"]
    /\ UNCHANGED <<addprovs, closing, ctxDone, notifShut, rpc, findKeys, pqmUp, kset,
                   searching, others>>
-----------------------------------------------------------------------------
(* getBlocksOfProviders                                                    *)

\* The network announces the cid of call r on the channel it returned from
\* SubCopyProvs; the send waits for room.
Announce(r) ==
    /\ rpc[r] = "unannounced"
    /\ Len(addprovs) < AddProvsCap
    /\ addprovs' = Append(addprovs, r)
    /\ rpc' = [rpc EXCEPT ![r] = "queued"]
    /\ UNCHANGED <<closing, ctxDone, notifShut, findKeys, pqmUp, kset,
                   searching, rb, others>>

\* case key := <-bs.addprovs: go bs.GetBlock(ctx, key); the goroutine is
\* about to call GetBlocks.  No limit on how many run at once.
GetBlocksOfProviders ==
    /\ "getBlocksOfProviders" \in others
    /\ addprovs # <<>>
    /\ rpc' = [rpc EXCEPT ![Head(addprovs)] = "init"]
    /\ addprovs' = Tail(addprovs)
    /\ UNCHANGED <<closing, ctxDone, notifShut, findKeys, pqmUp, kset,
                   searching, rb, others>>

\* the context GetBlock(ctx, key) passes to GetBlocks is the bitswap one:
\* the call's ctx.Done() fires when ctx is cancelled
ProvCtxDone(r) == ctxDone

-----------------------------------------------------------------------------
(* Shutdown                                                                *)

\* bs.Close() (or CloseAfterContext once the parent context is done)
Close ==
    /\ ~closing
    /\ closing' = TRUE
    /\ UNCHANGED <<addprovs, ctxDone, notifShut, rpc, findKeys, pqmUp, kset, searching,
                   rb, others>>

\* cancelFunc() by the goroutine in New once closing, or the parent
\* context is cancelled
CancelContext ==
    /\ ~ctxDone
    /\ ctxDone' = TRUE
    /\ UNCHANGED <<addprovs, closing, notifShut, rpc, findKeys, pqmUp, kset, searching,
                   rb, others>>

\* taskWorker, provideCollector and getBlocksOfProviders return on
\* ctx.Done(), provideWorker on px.Closing()
WorkerExit(w) ==
    /\ w \in others
    /\ IF w = "provideWorker" THEN closing ELSE ctxDone
    /\ others' = others \ {w}
    /\ UNCHANGED <<addprovs, closing, ctxDone, notifShut, rpc, findKeys, pqmUp, kset,
                   searching, rb>>

\* process.WithTeardown: once every child started with px.Go has returned,
\* notif.Shutdown() runs and Close() returns.
Teardown ==
    /\ closing /\ ~notifShut
    /\ ~pqmUp /\ rb.pc = "exited" /\ others = {}
    /\ notifShut' = TRUE
    /\ UNCHANGED <<addprovs, closing, ctxDone, rpc, findKeys, pqmUp, kset, searching,
                   rb, others>>

-----------------------------------------------------------------------------
Init ==
    /\ closing = FALSE /\ ctxDone = FALSE /\ notifShut = FALSE
    /\ rpc = [r \in Reqs |-> IF r \in ProvReqs THEN "unannounced" ELSE "init"]
    /\ addprovs = <<>>
    /\ findKeys = <<>>
    /\ pqmUp = TRUE
    /\ kset = {}
    /\ searching = [c \in Cids |-> 0]
    /\ rb = [pc |-> "idle", cid |-> NoBlk]
    /\ others = OtherWorkers

Next ==
    \/ \E r \in Reqs :
         \/ GetBlocks(r) \/ FindProvsDelay(r) \/ FindProvsRequest(r)
         \/ LoopEnds(r)
    \/ \E r \in ProvReqs : Announce(r)
    \/ GetBlocksOfProviders
    \/ ProviderQuery \/ ProviderQueryExit
    \/ \E c \in Cids : SearchDone(c)
    \/ RebroadcastTick \/ RebroadcastSend \/ RebroadcastExit
    \/ Close \/ CancelContext
    \/ \E w \in OtherWorkers : WorkerExit(w)
    \/ Teardown

\* Goroutines run when they can and timers fire: the provider-search delay
\* (1 s), the rebroadcast ticker, the providerRequestTimeout that ends every
\* search.  A sender blocked on the full findKeys channel waits in Go's FIFO
\* queue of senders, so it is served while the channel keeps getting room:
\* strong fairness.  A loop is sure to end only once notif.Shutdown closed
\* its promise; the caller and the network get no fairness otherwise.
\* A GetBlock goroutine of getBlocksOfProviders calls GetBlocks at once,
\* and its loop returns on its ctx.Done(), which every select of the loop
\* waits on; getBlocksOfProviders serves addprovs while it runs.
Fairness ==
    /\ \A r \in Reqs :
         /\ WF_vars(FindProvsDelay(r))
         /\ SF_vars(FindProvsRequest(r))
         /\ WF_vars(notifShut /\ LoopEnds(r))
    /\ \A r \in ProvReqs :
         /\ WF_vars(GetBlocks(r))
         /\ WF_vars(ProvCtxDone(r) /\ LoopEnds(r))
    /\ WF_vars(GetBlocksOfProviders)
    /\ WF_vars(ProviderQuery) /\ WF_vars(ProviderQueryExit)
    /\ \A c \in Cids : WF_vars(SearchDone(c))
    /\ WF_vars(RebroadcastTick) /\ SF_vars(RebroadcastSend)
    /\ WF_vars(RebroadcastExit)
    /\ WF_vars(closing /\ CancelContext) /\ WF_vars(ctxDone /\ Close)
    /\ \A w \in OtherWorkers : WF_vars(WorkerExit(w))
    /\ WF_vars(Teardown)

Spec == Init /\ [][Next]_vars
FairSpec == Spec /\ Fairness

-----------------------------------------------------------------------------
(* Properties                                                              *)

\* Spec section 5: the active-query set strictly deduplicates searches:
\* however GetBlocks loops and the rebroadcast worker interleave their
\* requests, no two search goroutines run for the same cid.
OneSearchPerCid ==
    \A c \in Cids : searching[c] <= 1

\* A GetBlocks loop whose provider-search delay fired gets its request onto
\* findKeys while bitswap runs: the provider query manager keeps draining
\* the channel, whatever the requests in it.
FindRequestAccepted ==
    \A r \in Reqs :
        (rpc[r] = "armed" /\ ~closing) ~> (rpc[r] # "armed" \/ closing)

\* Spec section 5: Close blocks until teardown completes, and every loop
\* selects on the shutdown signal and exits; so once closing, the teardown
\* eventually runs.
CloseCompletes ==
    closing ~> notifShut

=============================================================================
