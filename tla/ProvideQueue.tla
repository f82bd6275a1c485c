---------------------------- MODULE ProvideQueue ----------------------------
(***************************************************************************)
(* The provide pipeline of go-bitswap (workers.go, bitswap.go).            *)
(* receiveBlockFrom sends the cid of every received block on the buffered  *)
(* channel bs.newBlocks.  The provideCollector goroutine moves it to an    *)
(* unbounded slice toProvide and feeds bs.provideKeys one key at a time    *)
(* through nextKey/keysOut; it closes provideKeys when it returns on       *)
(* ctx.Done().  provideWorker takes a key from provideKeys, takes a token  *)
(* of the semaphore limit (provideWorkerMax) and starts a goroutine that   *)
(* calls network.Provide and gives the token back.  Shutdown is Close()    *)
(* (px closing, then ctx cancelled) or the parent context being cancelled  *)
(* (ctx, then px closing).                                                 *)
(*                                                                         *)
(* The module implements ProvideFifo under the mapping at its end.         *)
(***************************************************************************)
EXTENDS Naturals, Sequences, SequencesExt

CONSTANTS
    Cids,            \* block identifiers
    MaxSubmits,      \* bound on the block receipts that reach the pipeline
    NewBlocksCap,    \* capacity of bs.newBlocks (HasBlockBufferSize)
    ProvideKeysCap,  \* capacity of bs.provideKeys (provideKeysBufferSize)
    ProvideMax,      \* capacity of limit (provideWorkerMax)
    NoKey            \* the zero cid

ASSUME /\ MaxSubmits \in Nat
       /\ {NewBlocksCap, ProvideKeysCap, ProvideMax} \subseteq Nat \ {0}
       /\ NoKey \notin Cids

VARIABLES
    closing,      \* bs.process is closing
    ctxDone,      \* the bitswap context is cancelled
    nSub,         \* receipts that have tried to hand over their cid
    newBlocks,    \* bs.newBlocks
    collUp,       \* provideCollector is running
    keysOut,      \* keysOut != nil
    nextKey,      \* nextKey
    toProvide,    \* toProvide
    provideKeys,  \* bs.provideKeys
    pkClosed,     \* provideKeys has been closed
    pw,           \* provideWorker: [pc |-> "recv", "limit" or "exited", key]
    inflight,     \* limitedGoProvide goroutines running (tokens taken)
    provided      \* history: the keys limitedGoProvide was started for

vars == <<closing, ctxDone, nSub, newBlocks, collUp, keysOut, nextKey,
          toProvide, provideKeys, pkClosed, pw, inflight, provided>>
collVars == <<collUp, keysOut, nextKey, toProvide>>

TypeOK ==
    /\ closing \in BOOLEAN /\ ctxDone \in BOOLEAN
    /\ nSub \in 0..MaxSubmits
    /\ newBlocks \in Seq(Cids) /\ Len(newBlocks) <= NewBlocksCap
    /\ collUp \in BOOLEAN /\ keysOut \in BOOLEAN
    /\ nextKey \in Cids \cup {NoKey}
    /\ toProvide \in Seq(Cids)
    /\ provideKeys \in Seq(Cids) /\ Len(provideKeys) <= ProvideKeysCap
    /\ pkClosed \in BOOLEAN
    /\ pw \in [pc : {"recv", "limit", "exited"}, key : Cids \cup {NoKey}]
    /\ inflight \in 0..ProvideMax
    /\ provided \in Seq(Cids)

Init ==
    /\ closing = FALSE /\ ctxDone = FALSE
    /\ nSub = 0
    /\ newBlocks = <<>>
    /\ collUp = TRUE /\ keysOut = FALSE /\ nextKey = NoKey /\ toProvide = <<>>
    /\ provideKeys = <<>> /\ pkClosed = FALSE
    /\ pw = [pc |-> "recv", key |-> NoKey]
    /\ inflight = 0
    /\ provided = <<>>

-----------------------------------------------------------------------------
(* receiveBlockFrom, after the block is stored and published               *)

\* select { case bs.newBlocks <- blk.Cid(): ... }
Submit(c) ==
    /\ nSub < MaxSubmits
    /\ Len(newBlocks) < NewBlocksCap
    /\ newBlocks' = Append(newBlocks, c)
    /\ nSub' = nSub + 1
    /\ UNCHANGED <<closing, ctxDone, collVars, provideKeys, pkClosed, pw,
                   inflight, provided>>

\* ... case <-bs.process.Closing(): return bs.process.Close()
SubmitAbandoned ==
    /\ nSub < MaxSubmits
    /\ closing
    /\ nSub' = nSub + 1
    /\ UNCHANGED <<closing, ctxDone, newBlocks, collVars, provideKeys,
                   pkClosed, pw, inflight, provided>>

-----------------------------------------------------------------------------
(* provideCollector                                                        *)

\* case blkey := <-bs.newBlocks
CollectorRecv ==
    /\ collUp
    /\ newBlocks # <<>>
    /\ newBlocks' = Tail(newBlocks)
    /\ IF ~keysOut
         THEN /\ nextKey' = Head(newBlocks)
              /\ keysOut' = TRUE
              /\ UNCHANGED toProvide
         ELSE /\ toProvide' = Append(toProvide, Head(newBlocks))
              /\ UNCHANGED <<nextKey, keysOut>>
    /\ UNCHANGED <<closing, ctxDone, nSub, collUp, provideKeys, pkClosed, pw,
                   inflight, provided>>

\* mutant: the slot is emptied after a send even when toProvide is not
CollectorSendNoAdvance ==
    /\ collUp /\ keysOut
    /\ Len(provideKeys) < ProvideKeysCap
    /\ provideKeys' = Append(provideKeys, nextKey)
    /\ keysOut' = FALSE
    /\ UNCHANGED <<nextKey, toProvide>>
    /\ UNCHANGED <<closing, ctxDone, nSub, newBlocks, collUp, pkClosed, pw,
                   inflight, provided>>

\* case keysOut <- nextKey (a nil keysOut never sends)
CollectorSend ==
    /\ collUp /\ keysOut
    /\ Len(provideKeys) < ProvideKeysCap
    /\ provideKeys' = Append(provideKeys, nextKey)
    /\ IF toProvide # <<>>
         THEN /\ nextKey' = Head(toProvide)
              /\ toProvide' = Tail(toProvide)
              /\ UNCHANGED keysOut
         ELSE /\ keysOut' = FALSE
              /\ UNCHANGED <<nextKey, toProvide>>
    /\ UNCHANGED <<closing, ctxDone, nSub, newBlocks, collUp, pkClosed, pw,
                   inflight, provided>>

\* case <-ctx.Done(): return, running the deferred close(bs.provideKeys);
\* the keys held in nextKey and toProvide are lost with the goroutine
CollectorExit ==
    /\ collUp /\ ctxDone
    /\ collUp' = FALSE /\ keysOut' = FALSE /\ nextKey' = NoKey
    /\ toProvide' = <<>>
    /\ pkClosed' = TRUE
    /\ UNCHANGED <<closing, ctxDone, nSub, newBlocks, provideKeys, pw,
                   inflight, provided>>

-----------------------------------------------------------------------------
(* provideWorker and its limitedGoProvide goroutines                       *)

\* case k, ok := <-bs.provideKeys with ok
WorkerRecv ==
    /\ pw.pc = "recv"
    /\ provideKeys # <<>>
    /\ pw' = [pc |-> "limit", key |-> Head(provideKeys)]
    /\ provideKeys' = Tail(provideKeys)
    /\ UNCHANGED <<closing, ctxDone, nSub, newBlocks, collVars, pkClosed,
                   inflight, provided>>

\* ... with !ok: provideKeys is closed and drained, return
WorkerRecvClosed ==
    /\ pw.pc = "recv"
    /\ pkClosed /\ provideKeys = <<>>
    /\ pw' = [pc |-> "exited", key |-> NoKey]
    /\ UNCHANGED <<closing, ctxDone, nSub, newBlocks, collVars, provideKeys,
                   pkClosed, inflight, provided>>

\* mutant: the semaphore is not consulted
WorkerAcquireNoLimit ==
    /\ pw.pc = "limit"
    /\ inflight' = inflight + 1
    /\ provided' = Append(provided, pw.key)
    /\ pw' = [pc |-> "recv", key |-> NoKey]
    /\ UNCHANGED <<closing, ctxDone, nSub, newBlocks, collVars, provideKeys,
                   pkClosed>>

\* case limit <- struct{}{}: go limitedGoProvide(k, wid)
WorkerAcquire ==
    /\ pw.pc = "limit"
    /\ inflight < ProvideMax
    /\ inflight' = inflight + 1
    /\ provided' = Append(provided, pw.key)
    /\ pw' = [pc |-> "recv", key |-> NoKey]
    /\ UNCHANGED <<closing, ctxDone, nSub, newBlocks, collVars, provideKeys,
                   pkClosed>>

\* case <-px.Closing(): return, in either select; a key already taken from
\* provideKeys is lost
WorkerExit ==
    /\ pw.pc \in {"recv", "limit"}
    /\ closing
    /\ pw' = [pc |-> "exited", key |-> NoKey]
    /\ UNCHANGED <<closing, ctxDone, nSub, newBlocks, collVars, provideKeys,
                   pkClosed, inflight, provided>>

\* network.Provide returns (done, failed, or the 15s provideTimeout) and the
\* deferred <-limit gives the token back
ProvideReturns ==
    /\ inflight > 0
    /\ inflight' = inflight - 1
    /\ UNCHANGED <<closing, ctxDone, nSub, newBlocks, collVars, provideKeys,
                   pkClosed, pw, provided>>

-----------------------------------------------------------------------------
(* Shutdown (New): Close() or the parent context, each causing the other   *)

Close ==
    /\ ~closing
    /\ closing' = TRUE
    /\ UNCHANGED <<ctxDone, nSub, newBlocks, collVars, provideKeys, pkClosed,
                   pw, inflight, provided>>

CancelContext ==
    /\ ~ctxDone
    /\ ctxDone' = TRUE
    /\ UNCHANGED <<closing, nSub, newBlocks, collVars, provideKeys, pkClosed,
                   pw, inflight, provided>>

Next ==
    \/ \E c \in Cids : Submit(c)
    \/ SubmitAbandoned
    \/ CollectorRecv \/ CollectorSend \/ CollectorExit
    \/ WorkerRecv \/ WorkerRecvClosed \/ WorkerAcquire \/ WorkerExit
    \/ ProvideReturns
    \/ Close \/ CancelContext

Spec == Init /\ [][Next]_vars

\* Goroutines are scheduled fairly and Provide returns within its timeout;
\* the two shutdown triggers each cause the other (New binds them).
FairSpec ==
    /\ Spec
    /\ WF_vars(CollectorRecv) /\ WF_vars(CollectorSend)
    /\ WF_vars(CollectorExit)
    /\ WF_vars(WorkerRecv) /\ WF_vars(WorkerRecvClosed)
    /\ WF_vars(WorkerAcquire) /\ WF_vars(WorkerExit)
    /\ WF_vars(ProvideReturns)
    /\ WF_vars(closing /\ CancelContext) /\ WF_vars(ctxDone /\ Close)

-----------------------------------------------------------------------------
(* Refinement of ProvideFifo                                               *)

\* the keys handed in and not yet provided, oldest first: the one the worker
\* holds, the buffered provideKeys, the collector's nextKey and toProvide,
\* and the buffered newBlocks
Pending ==
    (IF pw.pc = "limit" THEN <<pw.key>> ELSE <<>>)
    \o provideKeys
    \o (IF keysOut THEN <<nextKey>> \o toProvide ELSE <<>>)
    \o newBlocks

FIFO == INSTANCE ProvideFifo
          WITH queue <- Pending, started <- provided,
               stopping <- closing \/ ctxDone

\* Spec "provide queue": every cid handed to newBlocks by a receipt is
\* provided in hand-over order, as often as it was handed over, and
\* eventually while the node runs; only shutdown may drop queued keys.
ProvideInOrder == FIFO!FairSpec
=============================================================================
