----------------------------- MODULE SleepQueue -----------------------------
(* The interface of library/ix_sleep.c as the rest of the library sees it.     *)
(* A task that calls ix_sleep(chan) is queued under chan until its exec signal *)
(* u_sleep_sig arrives; ix_wakeup(chan) signals every task queued under chan   *)
(* and dequeues none of them: the sleeper removes its own entry when it runs.  *)
(* wchan[t] is the channel task t is queued under (NoChan when it is not), and *)
(* sleepSig[t] is the latched signal bit.                                      *)
CONSTANTS Tasks, NoChan

\* tsleep() up to Wait(): t queues itself under c.
SleepOn(wchan, t, c) == [wchan EXCEPT ![t] = c]

\* ix_wakeup(c): the signal bit of every task queued under c is set.
Wakeup(wchan, sleepSig, c) ==
  [t \in Tasks |-> sleepSig[t] \/ wchan[t] = c]

\* Wait() can return for t: it is queued and its signal bit is set.
CanResume(wchan, sleepSig, t) == wchan[t] # NoChan /\ sleepSig[t]

\* tsleep() after Wait(): the entry is removed and the bit consumed.
Dequeue(wchan, t) == [wchan EXCEPT ![t] = NoChan]
ClearSig(sleepSig, t) == [sleepSig EXCEPT ![t] = FALSE]
=============================================================================
