------------------------------- MODULE Watch -------------------------------
(***************************************************************************)
(* The outage watch of the relay: lib/gateway_watch.py and outage_tick of  *)
(* bin/relay.py.  A tick decides which alerts are due, walks over a copy   *)
(* of the pending ones and awaits each post; the gateway goes and comes    *)
(* back at any of these awaits.                                            *)
(***************************************************************************)
EXTENDS Naturals, Sequences

CONSTANTS
  MaxOutages,  \* bound: losses of the connection
  MaxDeadRise, \* bound: dead letters
  MaxRefused,  \* bound: webhook posts that fail
  MaxRetries   \* bound: dead letters an operator retries

WatchAssumption == {MaxOutages, MaxDeadRise, MaxRefused, MaxRetries} \subseteq Nat

VARIABLES
  linked,      \* is the gateway connected?
  outages,     \* losses so far: the number of the present episode
  overdue,     \* has the outage lasted OUTAGE_ALERT_AFTER_S?
  downSince,   \* watch.down_since is not None
  alerted,     \* watch.outage_alerted
  alertedDead, \* watch.dead_alerted, 0 before the first reading
  dead,        \* dead rows of the outbox
  pending,     \* watch.pending: alerts [kind, of]
  walk,        \* what the running outage_tick still has to post
  posted,      \* alerts delivered, in order
  refused,     \* webhook posts that failed
  retries

alerts == <<downSince, alerted, alertedDead, pending, walk, posted>>
WatchVars == <<linked, outages, overdue, dead, refused, retries, alerts>>

WatchInit ==
  /\ linked = FALSE /\ outages = 0 /\ overdue = FALSE
  /\ downSince = TRUE /\ alerted = FALSE /\ alertedDead = 0 /\ dead = 0
  /\ pending = <<>> /\ walk = <<>> /\ posted = <<>> /\ refused = 0
  /\ retries = 0

Alert(k, n) == [kind |-> k, of |-> n]

----------------------------------------------------------------------------
(* The gateway *)

\* on_disconnect, watch.down.
LinkLost ==
  /\ linked /\ outages < MaxOutages
  /\ linked' = FALSE /\ outages' = outages + 1 /\ overdue' = FALSE
  /\ downSince' = TRUE
  /\ UNCHANGED <<dead, refused, retries, alerted, alertedDead, pending, walk, posted>>

\* on_connect, on_ready, on_resumed: watch.up.
LinkBack ==
  /\ ~linked
  /\ linked' = TRUE /\ overdue' = FALSE
  /\ downSince' = FALSE
  /\ alerted' = FALSE
  /\ pending' = IF alerted THEN Append(pending, Alert("recovery", outages)) ELSE pending
  /\ UNCHANGED <<outages, dead, refused, retries, alertedDead, walk, posted>>

OutageLasts ==
  /\ ~linked /\ ~overdue /\ overdue' = TRUE
  /\ UNCHANGED <<linked, outages, dead, refused, retries, alerts>>

----------------------------------------------------------------------------
(* The outage watch *)

PostDies ==
  /\ dead < MaxDeadRise /\ dead' = dead + 1
  /\ UNCHANGED <<linked, outages, overdue, refused, retries, alerts>>
OperatorRetries ==
  /\ dead > 0 /\ dead' = dead - 1 /\ retries < MaxRetries /\ retries' = retries + 1
  /\ UNCHANGED <<linked, outages, overdue, refused, alerts>>

AlertedOutage_Not == FALSE
AlertedOutage == TRUE

\* watch.tick; the first reading of the dead letters is the baseline.  alertedDead counts
\* from 1, so that 0 is no reading yet.
WatchTick ==
  /\ walk = <<>>
  /\ LET outage == IF downSince /\ ~alerted /\ overdue THEN <<Alert("outage", outages)>> ELSE <<>>
         more   == IF alertedDead # 0 /\ dead + 1 > alertedDead THEN <<Alert("dead", dead)>> ELSE <<>>
     IN  /\ pending' = pending \o outage \o more
         /\ alerted' = IF outage # <<>> THEN AlertedOutage ELSE alerted
  /\ alertedDead' = dead + 1
  /\ walk' = pending'
  /\ walk' # <<>> \/ alertedDead' # alertedDead
  /\ UNCHANGED <<linked, outages, overdue, dead, refused, retries, downSince, posted>>

Without_Nothing(s, a) == s

\* delivered: the first alert that is equal.
Without(s, a) ==
  IF \E i \in 1..Len(s) : s[i] = a
  THEN LET i == CHOOSE j \in 1..Len(s) : s[j] = a /\ \A k \in 1..(j - 1) : s[k] # a
       IN  SubSeq(s, 1, i - 1) \o SubSeq(s, i + 1, Len(s))
  ELSE s

\* outage_send in its thread; delivered() when it worked.
WebhookTakes ==
  /\ walk # <<>>
  /\ pending' = Without(pending, Head(walk))
  /\ posted' = Append(posted, Head(walk))
  /\ walk' = Tail(walk)
  /\ UNCHANGED <<linked, outages, overdue, dead, refused, retries, downSince, alerted, alertedDead>>

WebhookRefuses ==
  /\ walk # <<>> /\ refused < MaxRefused
  /\ refused' = refused + 1
  /\ walk' = Tail(walk)
  /\ UNCHANGED <<linked, outages, overdue, dead, retries, downSince, alerted, alertedDead,
                 pending, posted>>


WatchNext ==
  \/ LinkLost \/ LinkBack \/ OutageLasts \/ PostDies \/ OperatorRetries
  \/ WatchTick \/ WebhookTakes \/ WebhookRefuses

WatchSpec == WatchInit /\ [][WatchNext]_WatchVars

\* outage_loop ticks, a post is answered.  The gateway may stay down.
WatchFairness ==
  /\ WF_WatchVars(WatchTick) /\ WF_WatchVars(WebhookTakes) 

----------------------------------------------------------------------------
(* Properties *)

\* One outage is alerted once, and answered by at most one recovery, however often the
\* connection flaps and the webhook fails: nothing is posted twice.
OnceEach == \A i, j \in 1..Len(posted) :
              (posted[i] = posted[j] /\ posted[i].kind # "dead") => i = j

\* Whatever is due is posted in the end; an outage that was alerted and is over has its
\* recovery posted.
AlertsArrive ==
  \A n \in 0..MaxOutages :
    (\E i \in 1..Len(posted) : posted[i] = Alert("outage", n))
      ~> ((~linked /\ outages = n) \/ \E i \in 1..Len(posted) : posted[i] = Alert("recovery", n))

=============================================================================
