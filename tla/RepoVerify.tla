----------------------------- MODULE RepoVerify -----------------------------
(***************************************************************************)
(* `ipfs repo verify` (core/commands/repo.go) run by the command-line      *)
(* runner of go-ipfs-cmds (cli/run.go).                                    *)
(*                                                                         *)
(* The runner gives the request a context that is cancelled when --timeout *)
(* expires or when the runner returns.  The command's Run reads every key  *)
(* from the blockstore's AllKeysChan; verifyResultChan starts a goroutine  *)
(* that starts NumCPU*2 verifyWorkerRun workers (wg.Add before each go),    *)
(* waits for them and closes the unbuffered results channel.  A worker     *)
(* Gets each key it receives (HashOnRead: a corrupt block is an error) and *)
(* sends a message on results, or returns if the context is done first.    *)
(* Run counts the messages, emits progress and, once results is closed,    *)
(* reports success or the corruption.                                      *)
(*                                                                         *)
(* A block is a model value; a message is "ok" (the empty string) or       *)
(* "corrupt".  Emit may fail (the client went away); the blockstore and    *)
(* the ResponseEmitter are not under src/.                                 *)
(***************************************************************************)
EXTENDS Naturals, Sequences

CONSTANTS
    Blocks,      \* the keys AllKeysChan yields, in order
    Corrupt,     \* the blocks whose Get fails the hash check
    Workers,     \* the NumCPU*2 verifyWorkerRun goroutines
    TimeoutOpt   \* whether --timeout was given

ASSUME /\ Corrupt \subseteq {Blocks[i] : i \in DOMAIN Blocks}
       /\ TimeoutOpt \in BOOLEAN

NBlocks == Len(Blocks)

VARIABLES
    ctxDone,   \* req.Context is done
    kpos,      \* keys AllKeysChan has handed out
    kclosed,   \* AllKeysChan closed its channel
    spawned,   \* workers started by verifyResultChan's goroutine
    wg,        \* its WaitGroup counter
    wpc,       \* wpc[w]: "new", "recv", "send" or "done"
    wmsg,      \* wmsg[w]: the message w is sending, "ok" or "corrupt"
    rclosed,   \* results is closed
    rpc,       \* Run: "start", "loop" or "returned"
    progress,  \* Run's i: results read
    fails,     \* Run's fails
    outcome,   \* what Run ended with: "none", "error", "emitErr",
               \* "corrupt" or "validated"
    cli        \* the runner: "running" or "returned"

vars == <<ctxDone, kpos, kclosed, spawned, wg, wpc, wmsg, rclosed, rpc,
          progress, fails, outcome, cli>>

-----------------------------------------------------------------------------
(* The runner and Run                                                      *)

\* Run's setup: GetNode and AllKeysChan may fail and return the error;
\* otherwise verifyResultChan starts the closer goroutine and Run ranges
\* over results.
RunStart ==
    /\ rpc = "start"
    /\ \/ rpc' = "loop" /\ UNCHANGED outcome
       \/ rpc' = "returned" /\ outcome' = "error"
    /\ UNCHANGED <<ctxDone, kpos, kclosed, spawned, wg, wpc, wmsg, rclosed,
                   progress, fails, cli>>

\* for i := 0; i < NumCPU*2; i++ { wg.Add(1); go verifyWorkerRun(...) }
Spawn(w) ==
    /\ rpc # "start" /\ outcome # "error"
    /\ w \notin spawned
    /\ spawned' = spawned \cup {w}
    /\ wg' = wg + 1
    /\ wpc' = [wpc EXCEPT ![w] = "recv"]
    /\ UNCHANGED <<ctxDone, kpos, kclosed, wmsg, rclosed, rpc, progress,
                   fails, outcome, cli>>

\* mutant: results is closed without wg.Wait()
CloseResultsNoWait ==
    /\ spawned = Workers /\ ~rclosed
    /\ rclosed' = TRUE
    /\ UNCHANGED <<ctxDone, kpos, kclosed, spawned, wg, wpc, wmsg, rpc,
                   progress, fails, outcome, cli>>

\* wg.Wait(), then the deferred close(results)
CloseResults ==
    /\ spawned = Workers /\ wg = 0 /\ ~rclosed
    /\ rclosed' = TRUE
    /\ UNCHANGED <<ctxDone, kpos, kclosed, spawned, wg, wpc, wmsg, rpc,
                   progress, fails, outcome, cli>>

\* for k := range keys { bs.Get(k) ... }: receive the next key and check it
WorkerRecv(w) ==
    /\ wpc[w] = "recv" /\ ~kclosed /\ kpos < NBlocks
    /\ kpos' = kpos + 1
    /\ wmsg' = [wmsg EXCEPT ![w] =
                  IF Blocks[kpos + 1] \in Corrupt THEN "corrupt" ELSE "ok"]
    /\ wpc' = [wpc EXCEPT ![w] = "send"]
    /\ UNCHANGED <<ctxDone, kclosed, spawned, wg, rclosed, rpc, progress,
                   fails, outcome, cli>>

\* the range ends on the closed keys channel; the deferred wg.Done()
WorkerRecvClosed(w) ==
    /\ wpc[w] = "recv" /\ kclosed
    /\ wpc' = [wpc EXCEPT ![w] = "done"]
    /\ wg' = wg - 1
    /\ UNCHANGED <<ctxDone, kpos, kclosed, spawned, wmsg, rclosed, rpc,
                   progress, fails, outcome, cli>>

\* case results <- msg, received by Run's range: a corrupt message is
\* emitted and counted in fails, then i++ and the progress is emitted;
\* either Emit may fail, and Run returns its error
Deliver(w) ==
    /\ wpc[w] = "send" /\ rpc = "loop" /\ ~rclosed
    /\ wpc' = [wpc EXCEPT ![w] = "recv"]
    /\ \/ /\ progress' = progress + 1
          /\ fails' = IF wmsg[w] = "corrupt" THEN fails + 1 ELSE fails
          /\ UNCHANGED <<rpc, outcome>>
       \/ /\ rpc' = "returned" /\ outcome' = "emitErr"
          /\ UNCHANGED <<progress, fails>>
    /\ UNCHANGED <<ctxDone, kpos, kclosed, spawned, wg, wmsg, rclosed, cli>>

\* case <-ctx.Done(): return, dropping the message; the deferred wg.Done()
WorkerQuit(w) ==
    /\ wpc[w] = "send" /\ ctxDone
    /\ wpc' = [wpc EXCEPT ![w] = "done"]
    /\ wg' = wg - 1
    /\ UNCHANGED <<ctxDone, kpos, kclosed, spawned, wmsg, rclosed, rpc,
                   progress, fails, outcome, cli>>

\* mutant: a plain send on results, without the ctx.Done() case
WorkerSendPlain(w) == Deliver(w)

\* the select of verifyWorkerRun on results and ctx.Done()
WorkerSend(w) == Deliver(w) \/ WorkerQuit(w)

\* the range over results ends: an error if fails != 0, else the message
\* "verify complete, all blocks validated."
RunEnd ==
    /\ rpc = "loop" /\ rclosed
    /\ rpc' = "returned"
    /\ outcome' = IF fails # 0 THEN "corrupt" ELSE "validated"
    /\ UNCHANGED <<ctxDone, kpos, kclosed, spawned, wg, wpc, wmsg, rclosed,
                   progress, fails, cli>>

\* context.WithTimeout: the deadline passes while the command runs
Timeout ==
    /\ TimeoutOpt /\ ~ctxDone /\ cli = "running"
    /\ ctxDone' = TRUE
    /\ UNCHANGED <<kpos, kclosed, spawned, wg, wpc, wmsg, rclosed, rpc,
                   progress, fails, outcome, cli>>

\* Execute returns (an error on errCh, else the emitter's exit code), the
\* runner returns and its deferred cancel() cancels req.Context
CliReturn ==
    /\ rpc = "returned" /\ cli = "running"
    /\ cli' = "returned"
    /\ ctxDone' = TRUE
    /\ UNCHANGED <<kpos, kclosed, spawned, wg, wpc, wmsg, rclosed, rpc,
                   progress, fails, outcome>>

\* AllKeysChan's goroutine closes its channel after the last key, or when
\* the context is done
KeysClose ==
    /\ rpc # "start" /\ outcome # "error"
    /\ ~kclosed /\ (kpos = NBlocks \/ ctxDone)
    /\ kclosed' = TRUE
    /\ UNCHANGED <<ctxDone, kpos, spawned, wg, wpc, wmsg, rclosed, rpc,
                   progress, fails, outcome, cli>>

-----------------------------------------------------------------------------
Init ==
    /\ ctxDone = FALSE
    /\ kpos = 0 /\ kclosed = FALSE
    /\ spawned = {} /\ wg = 0
    /\ wpc = [w \in Workers |-> "new"]
    /\ wmsg = [w \in Workers |-> "ok"]
    /\ rclosed = FALSE
    /\ rpc = "start" /\ progress = 0 /\ fails = 0 /\ outcome = "none"
    /\ cli = "running"

Next ==
    \/ RunStart \/ CloseResults \/ RunEnd \/ Timeout \/ CliReturn \/ KeysClose
    \/ \E w \in Workers :
         Spawn(w) \/ WorkerRecv(w) \/ WorkerRecvClosed(w) \/ WorkerSend(w)

\* Every goroutine runs when it can: the runner, Run, the closer, the
\* workers, AllKeysChan's goroutine.  The deadline is not fair: it may
\* never pass.
Fairness ==
    /\ WF_vars(RunStart) /\ WF_vars(CloseResults) /\ WF_vars(RunEnd)
    /\ WF_vars(CliReturn) /\ WF_vars(KeysClose)
    /\ \A w \in Workers :
         /\ WF_vars(Spawn(w)) /\ WF_vars(WorkerRecv(w))
         /\ WF_vars(WorkerRecvClosed(w)) /\ WF_vars(WorkerSend(w))

Spec == Init /\ [][Next]_vars
FairSpec == Spec /\ Fairness

-----------------------------------------------------------------------------
(* Properties                                                              *)

\* results is closed only once no worker can still send on it: the closer
\* waits on the WaitGroup every worker was added to before it started, so
\* verifyWorkerRun never panics sending on a closed channel.
NoSendOnClosed ==
    rclosed => \A w \in Workers : wpc[w] \in {"new", "done"}

\* The command always ends and leaves no goroutine behind: whether Run
\* finishes, times out or returns on a failed Emit, every worker, the
\* closer and the runner return (the workers' sends select on ctx.Done(),
\* which the runner's deferred cancel closes).
VerifyEnds ==
    <>(/\ cli = "returned"
       /\ outcome # "error" => rclosed /\ \A w \in Workers : wpc[w] = "done")

\* "verify complete, all blocks validated." is reported only when every
\* block was read back and none was corrupt.
ValidatedMeansAll ==
    outcome = "validated" =>
        /\ progress = NBlocks
        /\ \A i \in DOMAIN Blocks : Blocks[i] \notin Corrupt

=============================================================================
