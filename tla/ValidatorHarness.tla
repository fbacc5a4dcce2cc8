-------------------------- MODULE ValidatorHarness --------------------------
(***************************************************************************)
(* The scripts around the exercises: hello-solana.sh of 01 ("hello"), the  *)
(* run.sh of 03, 04 and 06 ("run") and that of 05 ("counter").  Each run   *)
(* starts a validator of its own, waits until one answers on the port all  *)
(* of them use, does its work and tears its validator down.  Any number of *)
(* runs may follow each other or overlap on one machine.                   *)
(***************************************************************************)
EXTENDS Naturals, Sequences

CONSTANTS
  Runs,      \* the runs of a script
  Launches,  \* what they may be runs of: functions from run to script
  Polls      \* bound: tries of the readiness loop (60 in the scripts)

ASSUME RunsAssumption ==
  /\ Launches \subseteq [Runs -> {"hello", "hello --keep", "run", "counter"}]
  /\ Polls \in Nat

VARIABLES
  script,     \* run -> the script it is a run of
  pc,         \* run -> idle, forked (its validator started, no PID stored),
              \* poll, work, exit (the trap), wait (in it), ended, killed
  pid,        \* run -> its PID variable: unset, set, or set and signalled
  tries,      \* run -> polls nobody answered
  calls,      \* run -> calls made of Work
  outcome,    \* run -> "none", "ok", or why it fails
  validator,  \* run -> its validator: none, starting, up or dead
  answered,   \* run -> the validators that answered it
  funded,     \* the validators on whose ledger hello's account exists
  tiny        \* run -> what became of the airdrop below the rent minimum

vars == <<script, pc, pid, tries, calls, outcome, validator, answered, funded, tiny>>

IsHello(r) == script[r] \in {"hello", "hello --keep"}

\* The calls whose failure a script minds, and those it does not ("tiny", the
\* underfunded airdrop); "fund" is the airdrop of the minimum.
Work(r) == IF IsHello(r) THEN <<"must", "tiny", "fund", "must">>
           ELSE <<"must", "must">>

Alive(v)  == validator[v] \in {"starting", "up"}
Holders   == {v \in Runs : validator[v] = "up"}   \* of the port

Goes(r, next, result) ==
  pc' = [pc EXCEPT ![r] = next] /\ outcome' = [outcome EXCEPT ![r] = result]

-----------------------------------------------------------------------------
(* One run. *)

\* Mutant: without --reset the ledger of an earlier run is taken up again.
LedgerAtStart_Kept(r) ==
  IF \E s \in funded : IsHello(s) /\ IsHello(r) THEN funded \cup {r} ELSE funded

LedgerAtStart(r) == funded \ {r}

\* A program is missing, the build of 05 fails, a signal comes this early.
EarlyExit(r) ==
  /\ pc[r] = "idle"
  /\ Goes(r, "ended", "early exit")
  /\ UNCHANGED <<script, pid, tries, calls, validator, answered, funded, tiny>>

Fork(r) ==
  /\ pc[r] = "idle"
  /\ Goes(r, "forked", "none")
  /\ validator' = [validator EXCEPT ![r] = "starting"]
  /\ funded' = LedgerAtStart(r)
  /\ UNCHANGED <<script, pid, tries, calls, answered, tiny>>

StorePid(r) ==
  /\ pc[r] = "forked"
  /\ Goes(r, "poll", "none")
  /\ pid' = [pid EXCEPT ![r] = "set"]
  /\ UNCHANGED <<script, tries, calls, validator, answered, funded, tiny>>

PollAnswered(r) ==
  /\ pc[r] = "poll" /\ tries[r] < Polls
  /\ \E v \in Holders : answered' = [answered EXCEPT ![r] = @ \cup {v}]
  /\ Goes(r, "work", "none")
  /\ UNCHANGED <<script, pid, tries, calls, validator, funded, tiny>>

\* Mutant: the loop has no bound.
OneMore_Never(n) == n

OneMore(n) == n + 1

PollMissed(r) ==
  /\ pc[r] = "poll" /\ tries[r] < Polls
  /\ tries' = [tries EXCEPT ![r] = OneMore(@)]
  /\ UNCHANGED <<script, pc, pid, calls, outcome, validator, answered, funded, tiny>>

\* Mutant: no script looks at `ready`.
NotReady_GoesOn(r) == Goes(r, "work", "none")

\* Only hello-solana.sh looks whether the loop ended by an answer.
NotReady(r) == IF IsHello(r) THEN Goes(r, "exit", "not ready")
               ELSE Goes(r, "work", "none")

PollsExhausted(r) ==
  /\ pc[r] = "poll" /\ tries[r] = Polls
  /\ NotReady(r)
  /\ UNCHANGED <<script, pid, tries, calls, validator, answered, funded, tiny>>

Call(r) == Work(r)[calls[r] + 1]

NextCall(r) ==
  /\ calls' = [calls EXCEPT ![r] = @ + 1]
  /\ IF calls[r] + 1 = Len(Work(r)) THEN Goes(r, "exit", "ok") ELSE Goes(r, "work", "none")

\* 05's client finds its program only on a validator that preloads it.
Serves(v, r) == script[r] = "counter" => script[v] = "counter"

CallSucceeds(r) ==
  /\ pc[r] = "work"
  /\ \E v \in Holders :
       /\ Serves(v, r)
       /\ answered' = [answered EXCEPT ![r] = @ \cup {v}]
       /\ tiny' = IF Call(r) = "tiny" /\ v \in funded
                  THEN [tiny EXCEPT ![r] = "accepted"] ELSE tiny
       /\ funded' = IF Call(r) = "fund" THEN funded \cup {v} ELSE funded
  /\ NextCall(r)
  /\ UNCHANGED <<script, pid, tries, validator>>

CallFails(r) ==
  /\ pc[r] = "work"
  /\ IF Call(r) = "tiny" THEN NextCall(r)
     ELSE /\ Goes(r, "exit", IF Holders = {} THEN "no answer" ELSE "error")
          /\ UNCHANGED calls
  /\ UNCHANGED <<script, pid, tries, validator, answered, funded, tiny>>

\* SIGINT or SIGTERM: the trap runs.
Interrupted(r) ==
  /\ pc[r] \in {"forked", "poll", "work"}
  /\ Goes(r, "exit", "interrupted")
  /\ UNCHANGED <<script, pid, tries, calls, validator, answered, funded, tiny>>

\* In the trap, such a signal ends the shell where it stands.
TrapInterrupted(r) ==
  /\ \/ pc[r] = "exit" /\ Goes(r, "ended", "no kill")
     \/ pc[r] = "wait" /\ Goes(r, "ended", "no wait")
  /\ UNCHANGED <<script, pid, tries, calls, validator, answered, funded, tiny>>

\* SIGKILL: no trap.
Killed(r) ==
  /\ pc[r] \in {"forked", "poll", "work", "exit", "wait"}
  /\ Goes(r, "killed", "killed")
  /\ UNCHANGED <<script, pid, tries, calls, validator, answered, funded, tiny>>

Signalled(r) == [pid EXCEPT ![r] = "signalled"]

\* Mutant: the validator is sent a signal, but the script does not wait.
Cleanup_NoWait(r) ==
  /\ pc[r] = "exit"
  /\ Goes(r, "ended", outcome[r])
  /\ pid' = Signalled(r)
  /\ UNCHANGED <<script, tries, calls, validator, answered, funded, tiny>>

\* The trap leaves the validator running, knows of none, or kills it and waits.
Cleanup(r) ==
  /\ pc[r] = "exit"
  /\ IF script[r] = "hello --keep" \/ pid[r] = "unset"
     THEN Goes(r, "ended", outcome[r]) /\ UNCHANGED pid
     ELSE Goes(r, "wait", outcome[r]) /\ pid' = Signalled(r)
  /\ UNCHANGED <<script, tries, calls, validator, answered, funded, tiny>>

Waited(r) ==
  /\ pc[r] = "wait" /\ ~Alive(r)
  /\ Goes(r, "ended", outcome[r])
  /\ UNCHANGED <<script, pid, tries, calls, validator, answered, funded, tiny>>

-----------------------------------------------------------------------------
(* The validators (external). *)

\* Only one can hold the port.
ValidatorUp(v) ==
  /\ validator[v] = "starting" /\ Holders = {}
  /\ validator' = [validator EXCEPT ![v] = "up"]
  /\ UNCHANGED <<script, pc, pid, tries, calls, outcome, answered, funded, tiny>>

\* The port or the ledger is taken, a signal of the trap or of a user, a crash.
ValidatorDies(v) ==
  /\ Alive(v)
  /\ validator' = [validator EXCEPT ![v] = "dead"]
  /\ UNCHANGED <<script, pc, pid, tries, calls, outcome, answered, funded, tiny>>

-----------------------------------------------------------------------------

Polling(r) == PollAnswered(r) \/ PollMissed(r) \/ PollsExhausted(r)
Working(r) == CallSucceeds(r) \/ CallFails(r)
Leaving(r) == Cleanup(r) \/ Waited(r)

Init ==
  /\ script \in Launches
  /\ pc = [r \in Runs |-> "idle"] /\ pid = [r \in Runs |-> "unset"]
  /\ tries = [r \in Runs |-> 0]
  /\ calls = [r \in Runs |-> 0] /\ outcome = [r \in Runs |-> "none"]
  /\ validator = [r \in Runs |-> "none"] /\ answered = [r \in Runs |-> {}]
  /\ funded = {} /\ tiny = [r \in Runs |-> "refused"]

Next ==
  \E r \in Runs :
    \/ EarlyExit(r) \/ Fork(r) \/ StorePid(r) \/ Polling(r) \/ Working(r)
    \/ Leaving(r) \/ Interrupted(r) \/ TrapInterrupted(r) \/ Killed(r)
    \/ ValidatorUp(r) \/ ValidatorDies(r)

\* The shell goes on; the commands of hello return (a client of the others may
\* wait for its airdrop for ever); a validator that is sent SIGTERM exits.
Fairness ==
  \A r \in Runs :
    /\ WF_vars(StorePid(r) \/ Polling(r) \/ Leaving(r))
    /\ WF_vars(IsHello(r) /\ Working(r))
    /\ WF_vars(pid[r] = "signalled" /\ ValidatorDies(r))

Spec == Init /\ [][Next]_vars /\ Fairness

-----------------------------------------------------------------------------
(* Properties *)

\* 01 says that it "tears everything down on exit" (lines 5-6).  A run that has
\* ended by itself, by a failure or by a signal leaves a validator behind only if
\* it was told to, or if the signal came where no trap can help: before the PID
\* was stored (01 lines 53-54, run.sh 11-12), in the trap before its kill, or
\* in its wait, when the validator was sent SIGTERM and may live a little
\* longer (01 lines 31-45, run.sh 7-9).
StoppedOnExit ==
  \A r \in Runs : pc[r] = "ended" /\ Alive(r) =>
    \/ script[r] = "hello --keep"
    \/ pid[r] = "unset" /\ outcome[r] = "interrupted"
    \/ outcome[r] = "no kill"
    \/ pid[r] = "signalled" /\ outcome[r] = "no wait"

\* hello's airdrop of 1000 lamports is refused as announced (01 line 85),
\* although the keypair is that of earlier runs, unless two runs met on one
\* validator: one left running, or one still in use.
UnderfundedIsRefused ==
  \A r \in Runs : tiny[r] = "accepted" =>
    \E s \in Runs \ {r} : s \in answered[r] \/ r \in answered[s]

\* A run whose call nobody answers has lost the validator that answered it
\* before; only run.sh may also get there without any answer, after the last
\* poll (run.sh 13-17 beside 01 lines 57-62).
UnansweredHadAnswer ==
  \A r \in Runs : outcome[r] = "no answer" =>
    \/ ~IsHello(r) /\ tries[r] = Polls
    \/ \E v \in answered[r] : validator[v] = "dead"

\* The inductive invariant.  How far a run has come, and what it has called.
TypeOK ==
  /\ script \in [Runs -> {"hello", "hello --keep", "run", "counter"}]
  /\ pc \in [Runs -> {"idle", "forked", "poll", "work", "exit", "wait", "ended",
                      "killed"}]
  /\ pid \in [Runs -> {"unset", "set", "signalled"}]
  /\ tries \in [Runs -> Nat] /\ calls \in [Runs -> Nat]
  /\ outcome \in [Runs -> {"none", "ok", "early exit", "not ready", "no answer",
                           "error", "interrupted", "no kill", "no wait", "killed"}]
  /\ validator \in [Runs -> {"none", "starting", "up", "dead"}]
  /\ answered \in [Runs -> SUBSET Runs]
  /\ funded \subseteq Runs
  /\ tiny \in [Runs -> {"refused", "accepted"}]

Progress ==
  \A r \in Runs :
    /\ pc[r] = "idle" => validator[r] = "none"
    /\ pc[r] \in {"idle", "forked", "poll"} => calls[r] = 0 /\ outcome[r] = "none"
    /\ pc[r] = "work" => calls[r] < Len(Work(r))

\* Only an interrupted run gets to its trap without a PID.
PidKept ==
  \A r \in Runs :
    /\ pc[r] \in {"poll", "work"} => pid[r] = "set"
    /\ pc[r] = "exit" /\ pid[r] = "unset" => outcome[r] = "interrupted"
    /\ pc[r] = "wait" => pid[r] = "signalled"

\* Who answered was up, and whoever works was answered or did not look.
AnswersExplained ==
  \A r \in Runs :
    /\ \A v \in answered[r] : validator[v] \in {"up", "dead"}
    /\ pc[r] = "work" => answered[r] # {} \/ (~IsHello(r) /\ tries[r] = Polls)

\* An account on a ledger is the work of the run that started it, past its
\* third call, or of a run that met its validator.
FundedExplained ==
  \A v \in funded : calls[v] >= 3 \/ \E s \in Runs \ {v} : v \in answered[s]

HarnessInv ==
  /\ TypeOK /\ Progress /\ PidKept /\ AnswersExplained /\ FundedExplained
  /\ StoppedOnExit /\ UnderfundedIsRefused /\ UnansweredHadAnswer

\* Every run ends, but for a run.sh whose client never returns.
EveryRunEnds ==
  \A r \in Runs : \/ <>[](pc[r] \in {"idle", "ended", "killed"})
                  \/ <>[](pc[r] = "work" /\ ~IsHello(r))

=============================================================================
