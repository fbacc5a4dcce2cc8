----------------------- MODULE ValidatorHarnessProofs -----------------------
(***************************************************************************)
(* Theorems about ValidatorHarness, for any number of runs of the scripts  *)
(* and any bound on the polls.                                             *)
(***************************************************************************)
EXTENDS ValidatorHarness, TLAPS

LEMMA AtMostItself == \A n \in Nat : n <= n
OBVIOUS

LEMMA CallsOfWork ==
  ASSUME NEW r \in Runs
  PROVE  /\ Len(Work(r)) \in Nat
         /\ IsHello(r) => /\ Len(Work(r)) = 4 /\ Work(r)[1] = "must"
                          /\ Work(r)[2] = "tiny" /\ Work(r)[3] = "fund" /\ Work(r)[4] = "must"
         /\ ~IsHello(r) => /\ Len(Work(r)) = 2 /\ Work(r)[1] = "must"
                           /\ Work(r)[2] = "must"
<1>1. CASE IsHello(r)
  BY <1>1 DEF Work
<1>2. CASE ~IsHello(r)
  BY <1>2 DEF Work
<1>3. QED BY <1>1, <1>2

\* The airdrop below the minimum is the second call of a run, that of the
\* minimum the third.
LEMMA PlaceOfCall ==
  ASSUME NEW r \in Runs, calls[r] \in Nat, calls[r] < Len(Work(r))
  PROVE  /\ Call(r) = "tiny" => calls[r] = 1
         /\ Call(r) = "fund" => calls[r] = 2
<1>1. CASE IsHello(r)
  <2>1. calls[r] < 4
    BY <1>1, CallsOfWork
  <2>2. calls[r] \in {0, 1, 2, 3}
    BY <2>1
  <2>3. QED BY <1>1, <2>2, CallsOfWork DEF Call
<1>2. CASE ~IsHello(r)
  <2>1. calls[r] < 2
    BY <1>2, CallsOfWork
  <2>2. calls[r] \in {0, 1}
    BY <2>1
  <2>3. QED BY <1>2, <2>2, CallsOfWork DEF Call
<1>3. QED BY <1>1, <1>2

LEMMA InvInit == Init => HarnessInv
<1> SUFFICES ASSUME Init PROVE HarnessInv
  OBVIOUS
<1>1. TypeOK
  BY RunsAssumption DEF Init, TypeOK
<1>2. \A r \in Runs : /\ pc[r] = "idle" /\ validator[r] = "none" /\ calls[r] = 0
                      /\ outcome[r] = "none" /\ answered[r] = {} /\ tiny[r] = "refused"
  BY DEF Init
<1>3. Progress /\ PidKept /\ AnswersExplained
  BY <1>2 DEF Progress, PidKept, AnswersExplained
<1>4. FundedExplained
  BY DEF Init, FundedExplained
<1>5. StoppedOnExit /\ UnderfundedIsRefused /\ UnansweredHadAnswer
  BY <1>2 DEF StoppedOnExit, UnderfundedIsRefused, UnansweredHadAnswer
<1>6. QED BY <1>1, <1>3, <1>4, <1>5 DEF HarnessInv

-----------------------------------------------------------------------------
(* The steps of a run. *)

\* What a step of run r does: it changes nothing of the other runs, starts at
\* most its own validator, forgets no answer, and leaves r explained.
RunStep(r) ==
  /\ TypeOK' /\ UNCHANGED script
  /\ \A s \in Runs \ {r} :
       /\ pc'[s] = pc[s] /\ tries'[s] = tries[s] /\ calls'[s] = calls[s]
       /\ outcome'[s] = outcome[s] /\ validator'[s] = validator[s]
       /\ answered'[s] = answered[s] /\ tiny'[s] = tiny[s] /\ pid'[s] = pid[s]
  /\ \/ validator'[r] = validator[r]
     \/ pc[r] = "idle" /\ validator'[r] = "starting"
  /\ answered[r] \subseteq answered'[r] /\ calls[r] <= calls'[r]
  /\ \A v \in answered'[r] \ answered[r] : validator[v] = "up"
  /\ pc'[r] # "idle"
  /\ pc'[r] \in {"forked", "poll"} => calls'[r] = 0 /\ outcome'[r] = "none"
  /\ pc'[r] \in {"poll", "work"} => pid'[r] = "set"
  /\ pc'[r] = "exit" /\ pid'[r] = "unset" => outcome'[r] = "interrupted"
  /\ pc'[r] = "wait" => pid'[r] = "signalled"
  /\ pc'[r] = "work" => /\ calls'[r] < Len(Work(r))
                        /\ answered'[r] # {} \/ (~IsHello(r) /\ tries'[r] = Polls)
  /\ pc'[r] = "ended" /\ Alive(r)' =>
       \/ script[r] = "hello --keep"
       \/ pid'[r] = "unset" /\ outcome'[r] = "interrupted"
       \/ outcome'[r] = "no kill"
       \/ pid'[r] = "signalled" /\ outcome'[r] = "no wait"
  /\ outcome'[r] = "no answer" => /\ outcome[r] = "no answer" \/ (pc[r] = "work" /\ Holders = {})
                                  /\ tries'[r] = tries[r]
  /\ tiny'[r] = "accepted" => \/ tiny[r] = "accepted"
                              \/ \E s \in Runs \ {r} : s \in answered'[r] \/ r \in answered[s]
  /\ \A v \in funded' \ funded : IF v = r THEN calls'[r] >= 3 ELSE v \in answered'[r]

LEMMA RunStepInv ==
  ASSUME HarnessInv, NEW r \in Runs, RunStep(r)
  PROVE  HarnessInv'
<1>1. /\ TypeOK /\ TypeOK' /\ Progress /\ PidKept /\ AnswersExplained /\ FundedExplained
      /\ StoppedOnExit /\ UnderfundedIsRefused /\ UnansweredHadAnswer
      /\ UNCHANGED script
  BY DEF HarnessInv, RunStep
<1>2. \A s \in Runs : /\ IsHello(s)' <=> IsHello(s)
                      /\ Work(s)' = Work(s)
  BY <1>1 DEF IsHello, Work
<1>3. \A s \in Runs : /\ calls[s] \in Nat /\ calls'[s] \in Nat /\ calls[s] <= calls'[s]
                      /\ answered[s] \subseteq answered'[s]
                      /\ validator[s] \in {"up", "dead"} => validator'[s] = validator[s]
  <2>1. SUFFICES ASSUME NEW s \in Runs
                 PROVE  /\ calls[s] \in Nat /\ calls'[s] \in Nat /\ calls[s] <= calls'[s]
                        /\ answered[s] \subseteq answered'[s]
                        /\ validator[s] \in {"up", "dead"} => validator'[s] = validator[s]
    OBVIOUS
  <2>2. calls[s] \in Nat /\ calls'[s] \in Nat
    BY <1>1 DEF TypeOK
  <2>3. CASE s = r
    <3>1. calls[r] <= calls'[r] /\ answered[r] \subseteq answered'[r]
      BY DEF RunStep
    <3>2. validator'[r] = validator[r] \/ validator[r] = "none"
      BY <1>1 DEF RunStep, Progress
    <3>3. QED BY <2>2, <2>3, <3>1, <3>2
  <2>4. CASE s # r
    <3>1. calls'[s] = calls[s] /\ answered'[s] = answered[s] /\ validator'[s] = validator[s]
      BY <2>4 DEF RunStep
    <3>2. QED BY <2>2, <3>1
  <2>5. QED BY <2>3, <2>4
<1>4. ASSUME NEW s \in Runs, s # r
       PROVE  /\ pc'[s] = pc[s] /\ tries'[s] = tries[s] /\ calls'[s] = calls[s]
              /\ outcome'[s] = outcome[s] /\ validator'[s] = validator[s]
              /\ answered'[s] = answered[s] /\ pid'[s] = pid[s]
  BY <1>4 DEF RunStep
<1>5. Progress'
  <2>1. /\ pc'[r] # "idle"
        /\ pc'[r] \in {"idle", "forked", "poll"} => calls'[r] = 0 /\ outcome'[r] = "none"
        /\ pc'[r] = "work" => calls'[r] < Len(Work(r))
    BY DEF RunStep
  <2>2. ASSUME NEW s \in Runs, s # r
        PROVE  /\ pc'[s] = "idle" => validator'[s] = "none"
               /\ pc'[s] \in {"idle", "forked", "poll"} => calls'[s] = 0 /\ outcome'[s] = "none"
               /\ pc'[s] = "work" => calls'[s] < Len(Work(s))
    BY <1>1, <1>4, <2>2 DEF Progress
  <2>3. QED BY <1>2, <2>1, <2>2 DEF Progress
<1>6. PidKept'
  <2>1. /\ pc'[r] \in {"poll", "work"} => pid'[r] = "set"
        /\ pc'[r] = "exit" /\ pid'[r] = "unset" => outcome'[r] = "interrupted"
        /\ pc'[r] = "wait" => pid'[r] = "signalled"
    BY DEF RunStep
  <2>2. ASSUME NEW s \in Runs, s # r
        PROVE  /\ pc'[s] \in {"poll", "work"} => pid'[s] = "set"
               /\ pc'[s] = "exit" /\ pid'[s] = "unset" => outcome'[s] = "interrupted"
               /\ pc'[s] = "wait" => pid'[s] = "signalled"
    <3>1. pc'[s] = pc[s] /\ outcome'[s] = outcome[s] /\ pid'[s] = pid[s]
      BY <1>4, <2>2
    <3>2. /\ pc[s] \in {"poll", "work"} => pid[s] = "set"
          /\ pc[s] = "exit" /\ pid[s] = "unset" => outcome[s] = "interrupted"
          /\ pc[s] = "wait" => pid[s] = "signalled"
      BY <1>1 DEF PidKept
    <3>3. QED BY <3>1, <3>2
  <2>3. QED BY <2>1, <2>2 DEF PidKept
<1>7. AnswersExplained'
  <2>1. ASSUME NEW s \in Runs, NEW v \in answered'[s]
        PROVE  validator'[v] \in {"up", "dead"}
    <3>1. v \in Runs
      BY <1>1, <2>1 DEF TypeOK
    <3>2. CASE v \in answered[s]
      <4>1. validator[v] \in {"up", "dead"}
        BY <1>1, <3>2 DEF AnswersExplained
      <4>2. QED BY <1>3, <3>1, <4>1
    <3>3. CASE v \notin answered[s]
      <4>1. s = r
        BY <1>4, <2>1, <3>3
      <4>2. validator[v] = "up"
        BY <2>1, <3>3, <4>1 DEF RunStep
      <4>3. QED BY <1>3, <3>1, <4>2
    <3>4. QED BY <3>2, <3>3
  <2>2. ASSUME NEW s \in Runs, pc'[s] = "work"
        PROVE  answered'[s] # {} \/ (~IsHello(s) /\ tries'[s] = Polls)
    <3>1. CASE s = r
      BY <2>2, <3>1 DEF RunStep
    <3>2. CASE s # r
      BY <1>1, <1>4, <2>2, <3>2 DEF AnswersExplained
    <3>3. QED BY <3>1, <3>2
  <2>3. QED BY <1>2, <2>1, <2>2 DEF AnswersExplained
<1>8. FundedExplained'
  <2>1. SUFFICES ASSUME NEW v \in funded'
                 PROVE  calls'[v] >= 3 \/ \E s \in Runs \ {v} : v \in answered'[s]
    BY DEF FundedExplained
  <2>2. v \in Runs
    BY <1>1 DEF TypeOK
  <2>3. CASE v \in funded
    <3>1. calls[v] >= 3 \/ \E s \in Runs \ {v} : v \in answered[s]
      BY <1>1, <2>3 DEF FundedExplained
    <3>2. calls[v] >= 3 => calls'[v] >= 3
      BY <1>3, <2>2
    <3>3. QED BY <1>3, <3>1, <3>2
  <2>4. CASE v \notin funded
    BY <2>2, <2>4 DEF RunStep
  <2>5. QED BY <2>3, <2>4
<1>9. StoppedOnExit'
  <2>1. ASSUME NEW s \in Runs, s # r
        PROVE  Alive(s)' <=> Alive(s)
    BY <1>4, <2>1 DEF Alive
  <2>2. ASSUME NEW s \in Runs, pc'[s] = "ended", Alive(s)'
        PROVE  \/ script'[s] = "hello --keep"
               \/ pid'[s] = "unset" /\ outcome'[s] = "interrupted"
               \/ outcome'[s] = "no kill"
               \/ pid'[s] = "signalled" /\ outcome'[s] = "no wait"
    <3>1. CASE s = r
      BY <1>1, <2>2, <3>1 DEF RunStep
    <3>2. CASE s # r
      BY <1>1, <1>4, <2>1, <2>2, <3>2 DEF StoppedOnExit
    <3>3. QED BY <3>1, <3>2
  <2>3. QED BY <2>2 DEF StoppedOnExit
<1>10. UnderfundedIsRefused'
  <2>1. SUFFICES ASSUME NEW s \in Runs, tiny'[s] = "accepted"
                 PROVE  \E q \in Runs \ {s} : q \in answered'[s] \/ s \in answered'[q]
    BY DEF UnderfundedIsRefused
  <2>2. CASE tiny[s] = "accepted"
    <3>1. \E q \in Runs \ {s} : q \in answered[s] \/ s \in answered[q]
      BY <1>1, <2>2 DEF UnderfundedIsRefused
    <3>2. QED BY <1>3, <3>1
  <2>3. CASE tiny[s] # "accepted"
    <3>1. s = r
      BY <2>1, <2>3 DEF RunStep
    <3>2. \E q \in Runs \ {s} : q \in answered'[s] \/ s \in answered[q]
      BY <2>1, <2>3, <3>1 DEF RunStep
    <3>3. QED BY <1>3, <3>2
  <2>4. QED BY <2>2, <2>3
<1>11. UnansweredHadAnswer'
  <2>1. SUFFICES ASSUME NEW s \in Runs, outcome'[s] = "no answer"
                 PROVE  \/ ~IsHello(s) /\ tries'[s] = Polls
                        \/ \E v \in answered'[s] : validator'[v] = "dead"
    BY <1>2 DEF UnansweredHadAnswer
  <2>2. tries'[s] = tries[s]
    BY <2>1 DEF RunStep
  <2>3. \A v \in answered[s] : v \in Runs
    BY <1>1 DEF TypeOK
  <2>4. CASE outcome[s] = "no answer"
    <3>1. \/ ~IsHello(s) /\ tries[s] = Polls
          \/ \E v \in answered[s] : validator[v] = "dead"
      BY <1>1, <2>4 DEF UnansweredHadAnswer
    <3>2. QED BY <1>3, <2>2, <2>3, <3>1
  <2>5. CASE outcome[s] # "no answer"
    <3>1. s = r /\ pc[s] = "work" /\ Holders = {}
      BY <2>1, <2>5 DEF RunStep
    <3>2. answered[s] # {} \/ (~IsHello(s) /\ tries[s] = Polls)
      BY <1>1, <3>1 DEF AnswersExplained
    <3>3. \A v \in answered[s] : validator[v] = "dead"
      BY <1>1, <2>3, <3>1 DEF AnswersExplained, Holders
    <3>4. QED BY <1>3, <2>2, <2>3, <3>2, <3>3
  <2>6. QED BY <2>4, <2>5
<1>12. QED BY <1>1, <1>5, <1>7, <1>8, <1>9, <1>10, <1>11, <1>6 DEF HarnessInv

Pcs      == {"idle", "forked", "poll", "work", "exit", "wait", "ended", "killed"}
Outcomes == {"none", "ok", "early exit", "not ready", "no answer", "error", "interrupted",
             "no kill", "no wait", "killed"}

LEMMA GoesTo ==
  ASSUME TypeOK, NEW r \in Runs, NEW p \in Pcs, NEW o \in Outcomes, Goes(r, p, o)
  PROVE  /\ pc' \in [Runs -> Pcs] /\ outcome' \in [Runs -> Outcomes]
         /\ pc'[r] = p /\ outcome'[r] = o
         /\ \A s \in Runs \ {r} : pc'[s] = pc[s] /\ outcome'[s] = outcome[s]
BY DEF TypeOK, Goes, Pcs, Outcomes

\* A step of r that only goes on to another place of the script.
LEMMA GoesRunStep ==
  ASSUME HarnessInv, NEW r \in Runs, NEW p \in Pcs, NEW o \in Outcomes, Goes(r, p, o),
         UNCHANGED <<script, pid, tries, calls, validator, answered, funded, tiny>>,
         p \notin {"idle", "forked", "poll", "wait"},
         p = "work" => /\ calls[r] < Len(Work(r)) /\ pid[r] = "set"
                       /\ answered[r] # {} \/ (~IsHello(r) /\ tries[r] = Polls),
         p = "exit" => pid[r] = "set" \/ o = "interrupted",
         p = "ended" /\ Alive(r) => \/ script[r] = "hello --keep"
                                    \/ pid[r] = "unset" /\ o = "interrupted"
                                    \/ o = "no kill"
                                    \/ pid[r] = "signalled" /\ o = "no wait",
         o = "no answer" => outcome[r] = "no answer" \/ (pc[r] = "work" /\ Holders = {})
  PROVE  RunStep(r)
<1>1. TypeOK
  BY DEF HarnessInv
<1>2. /\ pc' \in [Runs -> Pcs] /\ outcome' \in [Runs -> Outcomes]
      /\ pc'[r] = p /\ outcome'[r] = o
      /\ \A s \in Runs \ {r} : pc'[s] = pc[s] /\ outcome'[s] = outcome[s]
  BY <1>1, GoesTo
<1>3. TypeOK'
  BY <1>1, <1>2 DEF TypeOK, Pcs, Outcomes
<1>4. calls[r] <= calls[r]
  <2>1. calls[r] \in Nat
    BY <1>1 DEF TypeOK
  <2>2. QED BY <2>1, AtMostItself
<1>5. Alive(r)' <=> Alive(r)
  BY DEF Alive
<1>6. QED BY <1>2, <1>3, <1>4, <1>5 DEF RunStep

LEMMA QuietStep ==
  ASSUME HarnessInv, NEW r \in Runs,
         \/ EarlyExit(r) \/ Fork(r) \/ StorePid(r) \/ PollMissed(r) \/ PollsExhausted(r)
         \/ Interrupted(r) \/ TrapInterrupted(r) \/ Killed(r) \/ Cleanup(r) \/ Waited(r)
  PROVE  RunStep(r)
<1>1. TypeOK /\ Progress /\ PidKept /\ outcome[r] \in Outcomes
  BY DEF HarnessInv, TypeOK, Outcomes
<1>2. calls[r] \in Nat /\ tries[r] \in Nat
  BY <1>1 DEF TypeOK
<1>3. CASE EarlyExit(r)
  <2>1. ~Alive(r)
    BY <1>1, <1>3 DEF EarlyExit, Progress, Alive
  <2>2. "ended" \in Pcs /\ "early exit" \in Outcomes
    BY DEF Pcs, Outcomes
  <2>3. Goes(r, "ended", "early exit")
        /\ UNCHANGED <<script, pid, tries, calls, validator, answered, funded, tiny>>
    BY <1>3 DEF EarlyExit
  <2>4. QED BY <2>1, <2>2, <2>3, GoesRunStep
<1>4. CASE Fork(r)
  <2>1. /\ Goes(r, "forked", "none") /\ pc[r] = "idle"
        /\ validator' = [validator EXCEPT ![r] = "starting"]
        /\ funded' = funded \ {r}
        /\ UNCHANGED <<script, pid, tries, calls, answered, tiny>>
    BY <1>4 DEF Fork, LedgerAtStart
  <2>2. "forked" \in Pcs /\ "none" \in Outcomes
    BY DEF Pcs, Outcomes
  <2>3. /\ pc' \in [Runs -> Pcs] /\ outcome' \in [Runs -> Outcomes]
        /\ pc'[r] = "forked" /\ outcome'[r] = "none"
        /\ \A s \in Runs \ {r} : pc'[s] = pc[s] /\ outcome'[s] = outcome[s]
    BY <1>1, <2>1, <2>2, GoesTo
  <2>4. /\ validator' \in [Runs -> {"none", "starting", "up", "dead"}]
        /\ validator'[r] = "starting"
        /\ \A s \in Runs \ {r} : validator'[s] = validator[s]
    BY <1>1, <2>1 DEF TypeOK
  <2>5. TypeOK'
    BY <1>1, <2>1, <2>3, <2>4 DEF TypeOK, Pcs, Outcomes
  <2>6. calls[r] = 0 /\ calls[r] <= calls[r]
    BY <1>1, <1>2, <2>1 DEF Progress
  <2>7. QED BY <2>1, <2>3, <2>4, <2>5, <2>6 DEF RunStep
<1>5. CASE StorePid(r)
  <2>1. /\ Goes(r, "poll", "none") /\ pc[r] = "forked"
        /\ pid' = [pid EXCEPT ![r] = "set"]
        /\ UNCHANGED <<script, tries, calls, validator, answered, funded, tiny>>
    BY <1>5 DEF StorePid
  <2>2. "poll" \in Pcs /\ "none" \in Outcomes
    BY DEF Pcs, Outcomes
  <2>3. /\ pc' \in [Runs -> Pcs] /\ outcome' \in [Runs -> Outcomes]
        /\ pc'[r] = "poll" /\ outcome'[r] = "none"
        /\ \A s \in Runs \ {r} : pc'[s] = pc[s] /\ outcome'[s] = outcome[s]
    BY <1>1, <2>1, <2>2, GoesTo
  <2>4. /\ pid' \in [Runs -> {"unset", "set", "signalled"}] /\ pid'[r] = "set"
        /\ \A s \in Runs \ {r} : pid'[s] = pid[s]
    BY <1>1, <2>1 DEF TypeOK
  <2>5. TypeOK'
    BY <1>1, <2>1, <2>3, <2>4 DEF TypeOK, Pcs, Outcomes
  <2>6. calls[r] = 0 /\ calls[r] <= calls[r]
    BY <1>1, <1>2, <2>1 DEF Progress
  <2>7. QED BY <2>1, <2>3, <2>4, <2>5, <2>6 DEF RunStep
<1>6. CASE PollMissed(r)
  <2>1. /\ pc[r] = "poll" /\ tries' = [tries EXCEPT ![r] = tries[r] + 1]
        /\ UNCHANGED <<script, pc, pid, calls, outcome, validator, answered, funded, tiny>>
    BY <1>6 DEF PollMissed, OneMore
  <2>2. tries[r] + 1 \in Nat
    BY <1>2
  <2>3. TypeOK' /\ \A s \in Runs \ {r} : tries'[s] = tries[s]
    BY <1>1, <2>1, <2>2 DEF TypeOK
  <2>4. calls[r] = 0 /\ calls[r] <= calls[r] /\ outcome[r] = "none" /\ pid[r] = "set"
    BY <1>1, <1>2, <2>1 DEF Progress, PidKept
  <2>5. QED BY <2>1, <2>3, <2>4 DEF RunStep
<1>7. CASE PollsExhausted(r)
  <2>1. calls[r] < Len(Work(r)) /\ pid[r] = "set"
    BY <1>1, <1>7, CallsOfWork DEF PollsExhausted, Progress, PidKept
  <2>2. "exit" \in Pcs /\ "work" \in Pcs /\ "not ready" \in Outcomes /\ "none" \in Outcomes
    BY DEF Pcs, Outcomes
  <2>3. /\ UNCHANGED <<script, pid, tries, calls, validator, answered, funded, tiny>>
        /\ tries[r] = Polls
        /\ \/ IsHello(r) /\ Goes(r, "exit", "not ready")
           \/ ~IsHello(r) /\ Goes(r, "work", "none")
    BY <1>7 DEF PollsExhausted, NotReady
  <2>4. CASE Goes(r, "exit", "not ready")
    BY <2>1, <2>2, <2>3, <2>4, GoesRunStep
  <2>5. CASE ~IsHello(r) /\ Goes(r, "work", "none")
    BY <2>1, <2>2, <2>3, <2>5, GoesRunStep
  <2>6. QED BY <2>3, <2>4, <2>5
<1>8. CASE Interrupted(r) \/ Killed(r)
  <2>1. Goes(r, "exit", "interrupted") \/ Goes(r, "killed", "killed")
    BY <1>8 DEF Interrupted, Killed
  <2>2. {"exit", "killed"} \subseteq Pcs /\ {"interrupted", "killed"} \subseteq Outcomes
    BY DEF Pcs, Outcomes
  <2>3. UNCHANGED <<script, pid, tries, calls, validator, answered, funded, tiny>>
    BY <1>8 DEF Interrupted, Killed
  <2>4. QED BY <2>1, <2>2, <2>3, GoesRunStep
<1>9. CASE TrapInterrupted(r)
  <2>1. \/ Goes(r, "ended", "no kill")
        \/ Goes(r, "ended", "no wait") /\ pid[r] = "signalled"
    BY <1>1, <1>9 DEF TrapInterrupted, PidKept
  <2>2. "ended" \in Pcs /\ {"no kill", "no wait"} \subseteq Outcomes
    BY DEF Pcs, Outcomes
  <2>3. UNCHANGED <<script, pid, tries, calls, validator, answered, funded, tiny>>
    BY <1>9 DEF TrapInterrupted
  <2>4. QED BY <2>1, <2>2, <2>3, GoesRunStep
<1>10. CASE Cleanup(r)
  <2>1. UNCHANGED <<script, tries, calls, validator, answered, funded, tiny>>
    BY <1>10 DEF Cleanup
  <2>2. "ended" \in Pcs /\ "wait" \in Pcs
    BY DEF Pcs
  <2>3. CASE script[r] = "hello --keep" \/ pid[r] = "unset"
    <3>1. Goes(r, "ended", outcome[r]) /\ UNCHANGED pid
      BY <1>10, <2>3 DEF Cleanup
    <3>2. script[r] = "hello --keep" \/ (pid[r] = "unset" /\ outcome[r] = "interrupted")
      BY <1>1, <1>10, <2>3 DEF Cleanup, PidKept
    <3>3. QED BY <1>1, <2>1, <2>2, <3>1, <3>2, GoesRunStep
  <2>4. CASE ~(script[r] = "hello --keep" \/ pid[r] = "unset")
    <3>1. Goes(r, "wait", outcome[r]) /\ pid' = [pid EXCEPT ![r] = "signalled"]
      BY <1>10, <2>4 DEF Cleanup, Signalled
    <3>2. /\ pc' \in [Runs -> Pcs] /\ outcome' \in [Runs -> Outcomes]
          /\ pc'[r] = "wait" /\ outcome'[r] = outcome[r]
          /\ \A s \in Runs \ {r} : pc'[s] = pc[s] /\ outcome'[s] = outcome[s]
      BY <1>1, <2>2, <3>1, GoesTo
    <3>3. /\ pid' \in [Runs -> {"unset", "set", "signalled"}] /\ pid'[r] = "signalled"
          /\ \A s \in Runs \ {r} : pid'[s] = pid[s]
      BY <1>1, <3>1 DEF TypeOK
    <3>4. TypeOK'
      BY <1>1, <2>1, <3>2, <3>3 DEF TypeOK, Pcs, Outcomes
    <3>5. calls[r] <= calls[r]
      BY <1>2, AtMostItself
    <3>6. QED BY <2>1, <3>2, <3>3, <3>4, <3>5 DEF RunStep
  <2>5. QED BY <2>3, <2>4
<1>11. CASE Waited(r)
  <2>1. /\ ~Alive(r) /\ Goes(r, "ended", outcome[r])
        /\ UNCHANGED <<script, pid, tries, calls, validator, answered, funded, tiny>>
    BY <1>11 DEF Waited
  <2>2. "ended" \in Pcs
    BY DEF Pcs
  <2>3. QED BY <1>1, <2>1, <2>2, GoesRunStep
<1>12. QED BY <1>3, <1>4, <1>6, <1>7, <1>8, <1>10, <1>11, <1>5, <1>9

LEMMA AnsweredStep ==
  ASSUME HarnessInv, NEW r \in Runs, PollAnswered(r)
  PROVE  RunStep(r)
<1>1. TypeOK /\ Progress
  BY DEF HarnessInv
<1>2. calls[r] = 0 /\ 0 < Len(Work(r)) /\ pid[r] = "set"
  BY <1>1, CallsOfWork DEF HarnessInv, PollAnswered, Progress, PidKept
<1>3. PICK v \in Holders : answered' = [answered EXCEPT ![r] = @ \cup {v}]
  BY DEF PollAnswered
<1>4. v \in Runs /\ validator[v] = "up"
  BY DEF Holders
<1>5. answered[r] \in SUBSET Runs
  BY <1>1 DEF TypeOK
<1>6. /\ answered' \in [Runs -> SUBSET Runs] /\ answered'[r] = answered[r] \cup {v}
      /\ \A s \in Runs \ {r} : answered'[s] = answered[s]
  BY <1>1, <1>3, <1>4, <1>5 DEF TypeOK
<1>7. /\ Goes(r, "work", "none") /\ "work" \in Pcs /\ "none" \in Outcomes
      /\ UNCHANGED <<script, pid, tries, calls, validator, funded, tiny>>
  BY DEF PollAnswered, Pcs, Outcomes
<1>8. /\ pc' \in [Runs -> Pcs] /\ outcome' \in [Runs -> Outcomes]
      /\ pc'[r] = "work" /\ outcome'[r] = "none"
      /\ \A s \in Runs \ {r} : pc'[s] = pc[s] /\ outcome'[s] = outcome[s]
  BY <1>1, <1>7, GoesTo
<1>9. TypeOK'
  BY <1>1, <1>6, <1>7, <1>8 DEF TypeOK, Pcs, Outcomes
<1>10. QED BY <1>2, <1>4, <1>6, <1>7, <1>8, <1>9 DEF RunStep

\* The next of the calls, or the end of them.
LEMMA NextCallGoesOn ==
  ASSUME HarnessInv, NEW r \in Runs, pc[r] = "work", NextCall(r)
  PROVE  /\ calls' \in [Runs -> Nat] /\ calls'[r] = calls[r] + 1 /\ calls[r] <= calls'[r]
         /\ pc' \in [Runs -> Pcs] /\ outcome' \in [Runs -> Outcomes]
         /\ pc'[r] \in {"work", "exit"} /\ outcome'[r] # "no answer"
         /\ pc'[r] = "work" => calls'[r] < Len(Work(r))
         /\ \A s \in Runs \ {r} : /\ pc'[s] = pc[s] /\ calls'[s] = calls[s]
                                  /\ outcome'[s] = outcome[s]
<1>1. TypeOK /\ calls[r] \in Nat /\ calls[r] < Len(Work(r)) /\ Len(Work(r)) \in Nat
  BY CallsOfWork DEF HarnessInv, TypeOK, Progress
<1>2. /\ calls[r] + 1 \in Nat /\ calls[r] <= calls[r] + 1
      /\ calls[r] + 1 # Len(Work(r)) => calls[r] + 1 < Len(Work(r))
  BY <1>1
<1>3. /\ calls' = [calls EXCEPT ![r] = calls[r] + 1]
      /\ \/ Goes(r, "exit", "ok")
         \/ calls[r] + 1 # Len(Work(r)) /\ Goes(r, "work", "none")
  BY DEF NextCall
<1>4. /\ calls' \in [Runs -> Nat] /\ calls'[r] = calls[r] + 1
      /\ \A s \in Runs \ {r} : calls'[s] = calls[s]
  BY <1>1, <1>2, <1>3 DEF TypeOK
<1>5. "exit" \in Pcs /\ "work" \in Pcs /\ "ok" \in Outcomes /\ "none" \in Outcomes
  BY DEF Pcs, Outcomes
<1>6. CASE Goes(r, "exit", "ok")
  BY <1>1, <1>2, <1>4, <1>5, <1>6, GoesTo
<1>7. CASE calls[r] + 1 # Len(Work(r)) /\ Goes(r, "work", "none")
  BY <1>1, <1>2, <1>4, <1>5, <1>7, GoesTo
<1>8. QED BY <1>3, <1>6, <1>7

LEMMA FailedStep ==
  ASSUME HarnessInv, NEW r \in Runs, CallFails(r)
  PROVE  RunStep(r)
<1>1. TypeOK /\ AnswersExplained /\ pc[r] = "work"
  BY DEF HarnessInv, CallFails
<1>2. /\ answered[r] # {} \/ (~IsHello(r) /\ tries[r] = Polls)
      /\ pid[r] = "set"
  BY <1>1 DEF HarnessInv, AnswersExplained, PidKept
<1>3. UNCHANGED <<script, pid, tries, validator, answered, funded, tiny>>
  BY DEF CallFails
<1>4. CASE Call(r) = "tiny"
  <2>1. NextCall(r)
    BY <1>4 DEF CallFails
  <2>2. TypeOK'
    BY <1>1, <1>3, <2>1, NextCallGoesOn DEF TypeOK, Pcs, Outcomes
  <2>3. QED BY <1>1, <1>2, <1>3, <2>1, <2>2, NextCallGoesOn DEF RunStep
<1>5. CASE Call(r) # "tiny"
  <2>1. /\ UNCHANGED calls
        /\ \/ Holders = {} /\ Goes(r, "exit", "no answer")
           \/ Goes(r, "exit", "error")
    BY <1>5 DEF CallFails
  <2>2. "exit" \in Pcs /\ "no answer" \in Outcomes /\ "error" \in Outcomes
    BY DEF Pcs, Outcomes
  <2>3. QED BY <1>1, <1>2, <1>3, <2>1, <2>2, GoesRunStep
<1>6. QED BY <1>4, <1>5

\* A call that a validator answers.  Its own ledger holds hello's account before
\* the airdrop of 1000 lamports only if another run met it there.
LEMMA SucceededStep ==
  ASSUME HarnessInv, NEW r \in Runs, CallSucceeds(r)
  PROVE  RunStep(r)
<1>1. TypeOK /\ Progress /\ FundedExplained /\ pc[r] = "work" /\ NextCall(r)
  BY DEF HarnessInv, CallSucceeds
<1>2. /\ calls[r] \in Nat /\ calls[r] < Len(Work(r)) /\ answered[r] \in SUBSET Runs
      /\ pid[r] = "set"
  BY <1>1 DEF HarnessInv, TypeOK, Progress, PidKept
<1>3. PICK v \in Holders :
        /\ answered' = [answered EXCEPT ![r] = @ \cup {v}]
        /\ tiny' = IF Call(r) = "tiny" /\ v \in funded
                   THEN [tiny EXCEPT ![r] = "accepted"] ELSE tiny
        /\ funded' = IF Call(r) = "fund" THEN funded \cup {v} ELSE funded
  BY DEF CallSucceeds
<1>4. v \in Runs /\ validator[v] = "up"
  BY DEF Holders
<1>5. UNCHANGED <<script, pid, tries, validator>>
  BY DEF CallSucceeds
<1>6. /\ answered' \in [Runs -> SUBSET Runs] /\ answered'[r] = answered[r] \cup {v}
      /\ \A s \in Runs \ {r} : answered'[s] = answered[s]
  BY <1>1, <1>2, <1>3, <1>4 DEF TypeOK
<1>7. /\ tiny' \in [Runs -> {"refused", "accepted"}] /\ funded' \subseteq Runs
      /\ \A s \in Runs \ {r} : tiny'[s] = tiny[s]
  BY <1>1, <1>3, <1>4 DEF TypeOK
<1>8. TypeOK'
  BY <1>1, <1>5, <1>6, <1>7, NextCallGoesOn DEF TypeOK, Pcs, Outcomes
<1>9. tiny'[r] = "accepted" => \/ tiny[r] = "accepted"
                              \/ \E s \in Runs \ {r} : s \in answered'[r] \/ r \in answered[s]
  <2>1. SUFFICES ASSUME Call(r) = "tiny", v \in funded
                 PROVE  \E s \in Runs \ {r} : s \in answered'[r] \/ r \in answered[s]
    BY <1>3
  <2>2. CASE v # r
    BY <1>4, <1>6, <2>2
  <2>3. CASE v = r
    <3>1. calls[r] = 1
      BY <1>2, <2>1, PlaceOfCall
    <3>2. \E s \in Runs \ {r} : r \in answered[s]
      BY <1>1, <2>1, <2>3, <3>1 DEF FundedExplained
    <3>3. QED BY <3>2
  <2>4. QED BY <2>2, <2>3
<1>10. \A w \in funded' \ funded : IF w = r THEN calls'[r] >= 3 ELSE w \in answered'[r]
  <2>1. SUFFICES ASSUME Call(r) = "fund"
                 PROVE  calls'[r] >= 3
    BY <1>3, <1>6
  <2>2. calls[r] = 2
    BY <1>2, <2>1, PlaceOfCall
  <2>3. calls'[r] = calls[r] + 1
    BY <1>1, NextCallGoesOn
  <2>4. QED BY <2>2, <2>3
<1>11. QED BY <1>1, <1>2, <1>4, <1>5, <1>6, <1>7, <1>8, <1>9, <1>10, NextCallGoesOn DEF RunStep

\* A validator comes up or dies: whoever was up is up or dead.
LEMMA ValidatorStepInv ==
  ASSUME HarnessInv, NEW v \in Runs, ValidatorUp(v) \/ ValidatorDies(v)
  PROVE  HarnessInv'
<1>1. /\ TypeOK /\ Progress /\ PidKept /\ AnswersExplained /\ FundedExplained
      /\ StoppedOnExit /\ UnderfundedIsRefused /\ UnansweredHadAnswer
  BY DEF HarnessInv
<1>2. UNCHANGED <<script, pc, pid, tries, calls, outcome, answered, funded, tiny>>
  BY DEF ValidatorUp, ValidatorDies
<1>3. \A r \in Runs : /\ IsHello(r)' <=> IsHello(r)
                      /\ Work(r)' = Work(r)
  BY <1>2 DEF IsHello, Work
<1>4. TypeOK'
  BY <1>1, <1>2 DEF ValidatorUp, ValidatorDies, TypeOK
<1>5. ASSUME NEW r \in Runs
      PROVE  /\ Alive(r)' => Alive(r)
             /\ validator[r] = "none" => validator'[r] = "none"
             /\ validator[r] \in {"up", "dead"} => validator'[r] \in {"up", "dead"}
             /\ validator[r] = "dead" => validator'[r] = "dead"
  <2>1. \/ validator[v] = "starting" /\ validator' = [validator EXCEPT ![v] = "up"]
        \/ Alive(v) /\ validator' = [validator EXCEPT ![v] = "dead"]
    BY DEF ValidatorUp, ValidatorDies
  <2>2. CASE r = v
    <3>1. validator'[r] \in {"up", "dead"} /\ Alive(r)
      BY <1>1, <2>1, <2>2 DEF Alive, TypeOK
    <3>2. validator[r] # "none" /\ (validator[r] = "dead" => validator'[r] = "dead")
      BY <3>1 DEF Alive
    <3>3. QED BY <3>1, <3>2
  <2>3. CASE r # v
    <3>1. validator'[r] = validator[r]
      BY <1>1, <2>1, <2>3 DEF TypeOK
    <3>2. QED BY <3>1 DEF Alive
  <2>4. QED BY <2>2, <2>3
<1>6. Progress' /\ PidKept' /\ AnswersExplained' /\ UnansweredHadAnswer'
  <2>1. \A r \in Runs : \A w \in answered[r] : w \in Runs
    BY <1>1 DEF TypeOK
  <2>2. Progress'
    BY <1>1, <1>2, <1>3, <1>5 DEF Progress
  <2>3. AnswersExplained'
    BY <1>1, <1>2, <1>3, <1>5, <2>1 DEF AnswersExplained
  <2>4. UnansweredHadAnswer'
    BY <1>1, <1>2, <1>3, <1>5, <2>1 DEF UnansweredHadAnswer
  <2>5. PidKept'
    BY <1>1, <1>2 DEF PidKept
  <2>6. QED BY <2>2, <2>3, <2>4, <2>5
<1>7. FundedExplained' /\ UnderfundedIsRefused'
  BY <1>1, <1>2 DEF FundedExplained, UnderfundedIsRefused
<1>8. StoppedOnExit'
  BY <1>1, <1>2, <1>5 DEF StoppedOnExit
<1>9. QED BY <1>4, <1>6, <1>7, <1>8 DEF HarnessInv

LEMMA InvStep == HarnessInv /\ [Next]_vars => HarnessInv'
<1> SUFFICES ASSUME HarnessInv, [Next]_vars PROVE HarnessInv'
  OBVIOUS
<1>1. CASE UNCHANGED vars
  BY <1>1 DEF vars, HarnessInv, TypeOK, Progress, PidKept, AnswersExplained, FundedExplained,
              StoppedOnExit, UnderfundedIsRefused, UnansweredHadAnswer, IsHello, Work, Alive
<1>2. ASSUME NEW r \in Runs, RunStep(r)
      PROVE  HarnessInv'
  BY <1>2, RunStepInv
<1>3. ASSUME NEW r \in Runs, ValidatorUp(r) \/ ValidatorDies(r)
      PROVE  HarnessInv'
  BY <1>3, ValidatorStepInv
<1>4. ASSUME NEW r \in Runs,
             \/ EarlyExit(r) \/ Fork(r) \/ StorePid(r) \/ Polling(r) \/ Working(r)
             \/ Leaving(r) \/ Interrupted(r) \/ TrapInterrupted(r) \/ Killed(r)
      PROVE  RunStep(r)
  BY <1>4, QuietStep, AnsweredStep, FailedStep, SucceededStep DEF Polling, Working, Leaving
<1>5. QED BY <1>1, <1>2, <1>3, <1>4 DEF Next

-----------------------------------------------------------------------------
(* The theorems. *)

\* However many runs of the scripts follow each other or overlap, and whatever
\* becomes of their validators.
THEOREM HarnessInvariant == Spec => []HarnessInv
<1>1. QED BY InvInit, InvStep, PTL DEF Spec

\* A run that ended has stopped its validator, but for a run told to leave it
\* and for a signal before the PID was stored or in the trap.
THEOREM LeftRunningIsExplained == Spec => []StoppedOnExit
<1>1. HarnessInv => StoppedOnExit
  BY DEF HarnessInv
<1>2. QED BY <1>1, HarnessInvariant, PTL

\* hello's underfunded airdrop is accepted only where two runs met.
THEOREM RefusedUnlessTheyMet == Spec => []UnderfundedIsRefused
<1>1. HarnessInv => UnderfundedIsRefused
  BY DEF HarnessInv
<1>2. QED BY <1>1, HarnessInvariant, PTL

\* A call that nobody answers follows an answer, or the last poll of a script
\* that does not look.
THEOREM NoAnswerIsALostValidator == Spec => []UnansweredHadAnswer
<1>1. HarnessInv => UnansweredHadAnswer
  BY DEF HarnessInv
<1>2. QED BY <1>1, HarnessInvariant, PTL

=============================================================================
