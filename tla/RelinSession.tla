---------------------------- MODULE RelinSession ----------------------------
(***************************************************************************)
(* What a persistent-output session promises the host: the outputs of all  *)
(* pairs of the profile table leave as one frame, pair after pair, each    *)
(* word exact under its own pair's profile, and TLAST comes once, on the   *)
(* last word of the last pair.  The host may submit pairs while earlier    *)
(* ones are still being delivered.                                         *)
(***************************************************************************)
EXTENDS RelinLayout

VARIABLES
  table,      \* the profiles of the loaded table, one per pair
  jobs,       \* the pairs submitted in this session, in order
  delivered,  \* words of the session delivered
  stream      \* what m_axis shows

Silent == [valid |-> FALSE]

PairWords    == OutputWords(jobs[1].counts)
SessionWords == Len(table) * PairWords
Word(n) ==
  [valid |-> TRUE,
   data  |-> Relinearized(jobs[n \div PairWords + 1], n % PairWords),
   last  |-> n = SessionWords - 1]

Complete == Len(jobs) = Len(table) /\ delivered = SessionWords
Between  == stream = Silent /\ (jobs # <<>> => Complete)

Init == table = <<>> /\ jobs = <<>> /\ delivered = 0 /\ stream = Silent

LoadTable ==
  /\ Between
  /\ table' # <<>> /\ jobs' = <<>> /\ delivered' = 0
  /\ UNCHANGED stream

(* Every pair of a session has the counts of its first one.                *)
Fits(job, pairs) ==
  /\ Len(pairs) < Len(table)
  /\ job.profile = table[Len(pairs) + 1]
  /\ pairs # <<>> => job.counts = pairs[1].counts

Open ==
  /\ Between /\ table # <<>>
  /\ Len(jobs') = 1 /\ Fits(jobs'[1], <<>>)
  /\ delivered' = 0
  /\ UNCHANGED <<table, stream>>

Submit ==
  /\ jobs # <<>>
  /\ Len(jobs') = Len(jobs) + 1 /\ jobs = SubSeq(jobs', 1, Len(jobs))
  /\ Fits(jobs'[Len(jobs')], jobs)

Offer ==
  /\ stream = Silent
  /\ jobs # <<>> /\ delivered < Len(jobs) * PairWords
  /\ stream' = Word(delivered)
  /\ UNCHANGED delivered

(* The word after the last one of a coefficient is offered later.          *)
Take ==
  /\ stream.valid
  /\ delivered' = delivered + 1
  /\ stream' = IF delivered' % (2 * jobs[1].counts.count) = 0
                 THEN Silent ELSE Word(delivered')

Advance ==
  /\ Submit \/ UNCHANGED jobs
  /\ Offer \/ Take \/ UNCHANGED <<delivered, stream>>
  /\ UNCHANGED table

Restart == table' = <<>> /\ jobs' = <<>> /\ delivered' = 0 /\ stream' = Silent

Next == LoadTable \/ Open \/ Advance \/ Restart

Spec == Init /\ [][Next]_<<table, jobs, delivered, stream>>
=============================================================================
