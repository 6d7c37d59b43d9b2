----------------------------- MODULE TraceRunner -----------------------------
(***************************************************************************)
(* The trace runner of the console (ArchitectureView in frontend/src/      *)
(* App.tsx): five stages run one after the other, the third needs a leader *)
(* and the fourth a quorum, and the fifth sends the request.  A run is an  *)
(* async function: it keeps the leader and the quorum that were shown when *)
(* it started, and it goes on when its view is gone, without touching the  *)
(* next view.  Operation and value only choose the request and are left    *)
(* out, like the highlighted module of the page map.                       *)
(***************************************************************************)
EXTENDS Naturals, Sequences

VARIABLES keyBlank,      \* traceKey is blank
          traceRunning,
          steps,         \* traceSteps, their status
          result,        \* traceResult
          runs           \* the runs in flight

traceVars == <<keyBlank, traceRunning, steps, result, runs>>

Stage == 0..4
Idle == [s \in Stage |-> "idle"]
Sight == [leader : BOOLEAN, quorum : BOOLEAN]
\* mounted: the view the run belongs to is still there.
Run == [stage : Stage, saw : Sight, mounted : BOOLEAN]

-----------------------------------------------------------------------------
\* Mutant: the button works while a trace is running.
MutRunTrace(shown) ==
  /\ ~keyBlank
  /\ traceRunning' = TRUE
  /\ result' = "none"
  /\ steps' = [Idle EXCEPT ![0] = "running"]
  /\ runs' = Append(runs, [stage |-> 0, saw |-> shown, mounted |-> TRUE])
  /\ UNCHANGED keyBlank
\* runTrace, up to its first sleep; shown is the leader and quorum on the screen.
RunTrace(shown) ==
  /\ ~keyBlank
  /\ ~traceRunning
  /\ traceRunning' = TRUE
  /\ result' = "none"
  /\ steps' = [Idle EXCEPT ![0] = "running"]
  /\ runs' = Append(runs, [stage |-> 0, saw |-> shown, mounted |-> TRUE])
  /\ UNCHANGED keyBlank

Without(i) == SubSeq(runs, 1, i - 1) \o SubSeq(runs, i + 1, Len(runs))

\* The run's updates of its view; they are lost when the view is gone.
Show(r, newSteps, newResult, running) ==
  IF r.mounted THEN steps' = newSteps /\ result' = newResult /\ traceRunning' = running
  ELSE UNCHANGED <<steps, result, traceRunning>>

\* The stages that throw as soon as they start.
Throws(r, stage) == (stage = 2 /\ ~r.saw.leader) \/ (stage = 3 /\ ~r.saw.quorum)

\* Mutant: a stage that throws leaves the trace running.
MutAdvance(i) ==
  LET r == runs[i]
      done == [steps EXCEPT ![r.stage] = "success"]
      next == r.stage + 1
  IN  /\ r.stage < 4
      /\ IF Throws(r, next)
         THEN /\ Show(r, [done EXCEPT ![next] = "error"], "failed", TRUE)
              /\ runs' = Without(i)
         ELSE /\ Show(r, [done EXCEPT ![next] = "running"], "none", TRUE)
              /\ runs' = [runs EXCEPT ![i].stage = next]
      /\ UNCHANGED keyBlank
\* A sleep ends: executeStep reports a success and the next stage starts.
Advance(i) ==
  LET r == runs[i]
      done == [steps EXCEPT ![r.stage] = "success"]
      next == r.stage + 1
  IN  /\ r.stage < 4
      /\ IF Throws(r, next)
         THEN /\ Show(r, [done EXCEPT ![next] = "error"], "failed", FALSE)
              /\ runs' = Without(i)
         ELSE /\ Show(r, [done EXCEPT ![next] = "running"], "none", TRUE)
              /\ runs' = [runs EXCEPT ![i].stage = next]
      /\ UNCHANGED keyBlank

\* The answer to the request, or its failure.
Reply(i, ok) ==
  LET r == runs[i]
  IN  /\ r.stage = 4
      /\ Show(r, [steps EXCEPT ![4] = IF ok THEN "success" ELSE "error"],
              IF ok THEN "ok" ELSE "failed", FALSE)
      /\ runs' = Without(i)
      /\ UNCHANGED keyBlank

\* The Reset button.
Reset ==
  /\ ~traceRunning
  /\ steps' = Idle
  /\ result' = "none"
  /\ UNCHANGED <<keyBlank, traceRunning, runs>>

SetKey(blank) == keyBlank' = blank /\ UNCHANGED <<traceRunning, steps, result, runs>>

\* Mutant: the runs keep writing to the view that comes next.
MutTraceUnmount ==
  /\ keyBlank' = FALSE /\ traceRunning' = FALSE /\ steps' = Idle /\ result' = "none"
  /\ UNCHANGED runs
\* The view goes; the next one starts afresh.
TraceUnmount ==
  /\ keyBlank' = FALSE /\ traceRunning' = FALSE /\ steps' = Idle /\ result' = "none"
  /\ runs' = [i \in DOMAIN runs |-> [runs[i] EXCEPT !.mounted = FALSE]]

TraceInit ==
  /\ keyBlank = FALSE /\ traceRunning = FALSE /\ steps = Idle /\ result = "none"
  /\ runs = <<>>

TraceProgress == \/ \E i \in DOMAIN runs : Advance(i)
                 \/ \E ok \in BOOLEAN : \E i \in DOMAIN runs : Reply(i, ok)

-----------------------------------------------------------------------------
(* Properties *)

TraceTypeOK ==
  /\ keyBlank \in BOOLEAN /\ traceRunning \in BOOLEAN
  /\ steps \in [Stage -> {"idle", "running", "success", "error"}]
  /\ result \in {"none", "ok", "failed"}
  /\ runs \in Seq(Run)

\* The stages on the screen are those of one run in order: successes, at most
\* one stage running or failed, and the rest idle, even while runs of earlier
\* views are still going on; and the result agrees with them.
StagesAreOneRun ==
  \E k \in 0..5 :
    /\ \A s \in Stage : s < k => steps[s] = "success"
    /\ \A s \in Stage : s > k => steps[s] = "idle"
    /\ traceRunning => k < 5 /\ steps[k] = "running" /\ result = "none"
    /\ ~traceRunning => \/ k = 0 /\ steps[0] = "idle" /\ result = "none"
                        \/ k \in 2..4 /\ steps[k] = "error" /\ result = "failed"
                        \/ k = 5 /\ result = "ok"

\* The running flag of a view stands for exactly one run of that view.
FlagIsRun ==
  /\ traceRunning = \E i \in DOMAIN runs : runs[i].mounted
  /\ \A i, j \in DOMAIN runs : runs[i].mounted /\ runs[j].mounted => i = j
=============================================================================
