----------------------------- MODULE RelinStream -----------------------------
(***************************************************************************)
(* What a relinearization core promises, whatever its banks, pipelines and *)
(* metadata queues: the words of the current job leave in order and exact, *)
(* an offered word waits unchanged until it is taken, no coefficient leaves*)
(* before all of it came in, and at most two coefficients are held.        *)
(***************************************************************************)
EXTENDS RelinLayout

CONSTANT Jobs   \* the jobs that may be asked for

VARIABLES
  job,        \* the batch frame being worked on
  accepted,   \* coefficients of it wholly received
  delivered,  \* words of it delivered
  stream      \* what m_axis shows

NoJob == [frame |-> 0, counts |-> [count |-> 0, digits |-> 0], profile |-> NoProfile]
Silent == [valid |-> FALSE]
Word(n) == [valid |-> TRUE, data |-> Relinearized(job, n),
            last |-> n = OutputWords(job.counts) - 1]

Init == job = NoJob /\ accepted = 0 /\ delivered = 0 /\ stream = Silent

PerCoefficient == 2 * job.counts.count

(* A job never begins over a word still waiting to be taken.               *)
Begin ==
  /\ stream = Silent
  /\ job' \in Jobs /\ accepted' = 0 /\ delivered' = 0
  /\ UNCHANGED stream

Accept ==
  /\ job # NoJob /\ accepted < N
  /\ accepted < delivered \div PerCoefficient + 2
  /\ accepted' = accepted + 1

Offer ==
  /\ stream = Silent
  /\ delivered < PerCoefficient * accepted
  /\ stream' = Word(delivered)
  /\ UNCHANGED delivered

(* The word after the last one of a coefficient is offered later.          *)
Take ==
  /\ stream.valid
  /\ delivered' = delivered + 1
  /\ stream' = IF delivered' % PerCoefficient = 0 THEN Silent ELSE Word(delivered')

Advance ==
  /\ Accept \/ UNCHANGED accepted
  /\ Offer \/ Take \/ UNCHANGED <<delivered, stream>>
  /\ UNCHANGED job

Restart ==
  job' = NoJob /\ accepted' = 0 /\ delivered' = 0 /\ stream' = Silent

Next == Begin \/ Advance \/ Restart

Spec == Init /\ [][Next]_<<job, accepted, delivered, stream>>
=============================================================================
