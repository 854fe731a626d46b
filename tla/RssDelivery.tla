---------------------------- MODULE RssDelivery ----------------------------
(***************************************************************************)
(* The RSS task (tasks/rss.py): feed_poller.py stores the new items of a    *)
(* feed and counts its errors, rss_delivery_service.py sends each stored    *)
(* item to the feed's subscribers and records the deliveries, both over     *)
(* rss_feed_repository.py.  Nothing keeps one run of the task from          *)
(* overlapping the next, and a run may die at any step.  One feed.          *)
(***************************************************************************)
EXTENDS Integers, FiniteSets

CONSTANTS
  Polls,          \* runs of the task
  Users,
  LastItem,       \* the feed publishes items 1..LastItem
  MaxItemsPerPoll,
  MaxFetchErrors

ASSUME RssAssumption ==
  {LastItem, MaxItemsPerPoll, MaxFetchErrors} \subseteq Nat \ {0}

VARIABLES
  onFeed,      \* items the feed shows
  stored,         \* rss_feed_items
  etag,           \* of the feed row: the number of items shown then, -1 for NULL
  errors,         \* fetch_error_count
  active,         \* is_active of the feed
  subscribed,     \* users with an active subscription
  deliveries,     \* rss_item_deliveries, pairs <<user, item>>
  poll,           \* the runs
  sent,           \* history: messages sent, by user and item
  due,            \* history: pairs a run has found to deliver
  skipped,        \* history: items whose content was too short
  forgone,        \* history: pairs a run has given up
  failures,       \* history: fetches failed in a row, which any answer of the feed ends
  unmodified,     \* history: a 304 has ended such a row, and no success has followed
  overtaken         \* history: a count was written that another had overtaken

feedVars == <<etag, errors, active, failures, unmodified, overtaken>>
sendVars == <<deliveries, sent, due, skipped, forgone>>
rssVars == <<onFeed, stored, subscribed, poll, feedVars, sendVars>>

ItemIds == 1..LastItem
PollPlaces == {"off", "fetch", "store", "stored", "failing", "counting", "query", "prepare", "mark",
           "send", "over"}
NoOneYet == [u \in Users |-> "no"]
IdlePoll == [at |-> "off", etag |-> -1, found |-> 0, own |-> {}, list |-> {}, to |-> NoOneYet,
             read |-> 0]

RssTypeOK ==
  /\ onFeed \in ItemIds /\ stored \subseteq ItemIds
  /\ etag \in -1..LastItem /\ errors \in Nat /\ active \in BOOLEAN
  /\ subscribed \subseteq Users
  /\ {deliveries, due, forgone} \subseteq SUBSET (Users \X ItemIds)
  /\ skipped \subseteq ItemIds
  /\ sent \in [Users \X ItemIds -> Nat]
  /\ failures \in Nat /\ {unmodified, overtaken} \subseteq BOOLEAN
  /\ \A p \in Polls :
       /\ poll[p].at \in PollPlaces
       /\ poll[p].own \subseteq stored
       /\ poll[p].list \subseteq Users \X poll[p].own
       /\ Cardinality({d[2] : d \in poll[p].list}) <= MaxItemsPerPoll
       /\ poll[p].to \in [Users -> {"no", "wait", "mark", "done"}]
       /\ poll[p].at \in {"prepare", "mark", "send"} => poll[p].list # {}

RssInit ==
  /\ onFeed = 1 /\ stored = {} /\ etag = -1 /\ active = TRUE
  /\ errors \in 0..MaxFetchErrors - 1 /\ failures = errors
  /\ unmodified = FALSE /\ overtaken = FALSE
  /\ subscribed \in SUBSET Users
  /\ deliveries = {} /\ due = {} /\ forgone = {} /\ skipped = {}
  /\ sent = [d \in Users \X ItemIds |-> 0]
  /\ poll = [p \in Polls |-> IdlePoll]

Step(p, place) == poll' = [poll EXCEPT ![p].at = place]

Finish(p) == poll' = [poll EXCEPT ![p] = [IdlePoll EXCEPT !.at = "over"]]

-----------------------------------------------------------------------------
(* External: the feed and its readers *)

PublishItem ==
  /\ onFeed < LastItem
  /\ onFeed' = onFeed + 1
  /\ UNCHANGED <<stored, subscribed, poll, feedVars, sendVars>>

ChangeSubscription(u) ==
  /\ subscribed' = IF u \in subscribed THEN subscribed \ {u} ELSE subscribed \cup {u}
  /\ UNCHANGED <<onFeed, stored, poll, feedVars, sendVars>>

-----------------------------------------------------------------------------
(* poll_all_feeds *)

BeginPoll(p) ==
  /\ poll[p].at = "off" /\ active
  /\ poll' = [poll EXCEPT ![p] = [IdlePoll EXCEPT !.at = "fetch", !.etag = etag]]
  /\ UNCHANGED <<onFeed, stored, subscribed, feedVars, sendVars>>

\* A feed that has not changed answers 304: a success of its signal source, which leaves the
\* feed's row and its count alone.
Fetch(p) ==
  /\ poll[p].at = "fetch"
  /\ \/ /\ poll[p].etag = onFeed
        /\ failures' = 0 /\ unmodified' = (unmodified \/ failures # 0)
        /\ Finish(p)
     \/ /\ poll[p].etag # onFeed
        /\ poll' = [poll EXCEPT ![p].at = "store", ![p].found = onFeed]
        /\ UNCHANGED <<failures, unmodified>>
  /\ UNCHANGED <<onFeed, stored, subscribed, etag, errors, active, overtaken, sendVars>>

\* Faulty variant of Inserted: the conflicting rows are returned as well.
InsertedOrFound(found) == 1..found

\* The rows ON CONFLICT DO NOTHING inserts and returns.
Inserted(found) == (1..found) \ stored

\* _create_feed_items: the bulk insert, or else the items one by one, each of which may
\* fail.  The items inserted are the run's own.
StoreItems(p) ==
  /\ poll[p].at = "store"
  /\ \E rows \in SUBSET Inserted(poll[p].found) :
       /\ stored' = stored \cup rows
       /\ poll' = [poll EXCEPT ![p].own = rows, ![p].at = "stored"]
  /\ UNCHANGED <<onFeed, subscribed, feedVars, sendVars>>

\* Faulty variant of AfterSuccess: the counter is never reset.
AfterSuccessAsBefore == errors

AfterSuccess == 0

\* Ids that were inserted are handed to the delivery, whether the rest of the poll fails or not.
ToDelivery(own) == IF own = {} THEN "over" ELSE "query"

Overtakes(p) == \E q \in Polls \ {p} : poll[q].at = "counting"

\* async_update_feed_fetch_success; the success of its signal source is recorded
\* after it, which may raise.
FetchSucceeds(p) ==
  /\ poll[p].at = "stored"
  /\ etag' = poll[p].found /\ errors' = AfterSuccess /\ failures' = 0 /\ unmodified' = FALSE
  /\ overtaken' = (overtaken \/ Overtakes(p))
  /\ \E place \in {ToDelivery(poll[p].own), "failing"} : Step(p, place)
  /\ UNCHANGED <<onFeed, stored, subscribed, active, sendVars>>

\* Any step of the feed's part raises.
FetchFails(p) ==
  /\ poll[p].at \in {"fetch", "store", "stored"}
  /\ Step(p, "failing")
  /\ UNCHANGED <<onFeed, stored, subscribed, feedVars, sendVars>>

\* async_record_feed_fetch_error reads the count and writes it in one transaction.
ReadErrors(p) ==
  /\ poll[p].at = "failing"
  /\ poll' = [poll EXCEPT ![p].at = "counting", ![p].read = errors]
  /\ UNCHANGED <<onFeed, stored, subscribed, feedVars, sendVars>>

WriteErrors(p) ==
  /\ poll[p].at = "counting"
  /\ errors' = poll[p].read + 1
  /\ active' = (active /\ poll[p].read + 1 < MaxFetchErrors)
  /\ failures' = failures + 1
  /\ overtaken' = (overtaken \/ Overtakes(p))
  /\ Step(p, ToDelivery(poll[p].own))
  /\ UNCHANGED <<onFeed, stored, subscribed, etag, unmodified, sendVars>>

-----------------------------------------------------------------------------
(* deliver_new_items *)

\* async_list_delivery_targets: pairs of a subscriber and an item of the run's own that has
\* not reached him.
Targets(p) == {d \in subscribed \X poll[p].own : d \notin deliveries}

\* The newest items of a list of targets.
Capped(list) ==
  {d \in list : Cardinality({e[2] : e \in {f \in list : f[2] > d[2]}}) < MaxItemsPerPoll}

\* The items over the cap belong to no later run.
QueryTargets(p) ==
  /\ poll[p].at = "query"
  /\ LET all == Targets(p)
         list == Capped(all)
     IN /\ IF list = {}
           THEN Finish(p)
           ELSE poll' = [poll EXCEPT ![p].at = "prepare", ![p].list = list]
        /\ forgone' = forgone \cup (all \ list)
        /\ due' = due \cup all
  /\ UNCHANGED <<onFeed, stored, subscribed, feedVars, deliveries, sent, skipped>>

\* The newest item of the list that is left, and the pairs it stands for.
TargetItem(p) ==
  CHOOSE i \in {d[2] : d \in poll[p].list} : \A d \in poll[p].list : d[2] <= i

Pairs(p) == {d \in poll[p].list : d[2] = TargetItem(p)}
Targeted(p) == {d[1] : d \in Pairs(p)}

NextTarget(p) ==
  IF Pairs(p) = poll[p].list
  THEN Finish(p)
  ELSE poll' = [poll EXCEPT ![p].at = "prepare", ![p].list = @ \ Pairs(p), ![p].to = NoOneYet]

\* _prepare_item makes a message, or finds too little content, or raises.
PrepareItem(p) ==
  /\ poll[p].at = "prepare"
  /\ \/ /\ poll' = [poll EXCEPT ![p].at = "send",
                                ![p].to = [u \in Users |-> IF u \in Targeted(p) THEN "wait" ELSE "no"]]
        /\ UNCHANGED <<skipped, forgone>>
     \/ Step(p, "mark") /\ skipped' = skipped \cup {TargetItem(p)} /\ UNCHANGED forgone
     \/ NextTarget(p) /\ forgone' = forgone \cup Pairs(p) /\ UNCHANGED skipped
  /\ UNCHANGED <<onFeed, stored, subscribed, feedVars, deliveries, sent, due>>

\* async_mark_items_delivered of a skipped item; it may raise.
MarkSkipped(p) ==
  /\ poll[p].at = "mark"
  /\ \/ deliveries' = deliveries \cup Pairs(p) /\ UNCHANGED forgone
     \/ forgone' = forgone \cup Pairs(p) /\ UNCHANGED deliveries
  /\ NextTarget(p)
  /\ UNCHANGED <<onFeed, stored, subscribed, feedVars, sent, skipped, due>>

\* Faulty variant of Sent: the delivery is recorded first.
SentLast(p, u) == deliveries' = deliveries \cup {<<u, TargetItem(p)>>} /\ UNCHANGED sent

\* send_func returns: the message has gone, and nothing is recorded yet.
Sent(p, u) == sent' = [sent EXCEPT ![<<u, TargetItem(p)>>] = @ + 1] /\ UNCHANGED deliveries

\* One of send_one's calls, which run side by side.
Send(p, u) ==
  /\ poll[p].at = "send" /\ poll[p].to[u] = "wait"
  /\ \/ Sent(p, u) /\ poll' = [poll EXCEPT ![p].to[u] = "mark"] /\ UNCHANGED forgone
     \/ /\ poll' = [poll EXCEPT ![p].to[u] = "done"]
        /\ forgone' = forgone \cup {<<u, TargetItem(p)>>}
        /\ UNCHANGED <<deliveries, sent>>
  /\ UNCHANGED <<onFeed, stored, subscribed, feedVars, skipped, due>>

\* async_mark_item_delivered, which may raise.
MarkSent(p, u) ==
  /\ poll[p].at = "send" /\ poll[p].to[u] = "mark"
  /\ poll' = [poll EXCEPT ![p].to[u] = "done"]
  /\ \/ deliveries' = deliveries \cup {<<u, TargetItem(p)>>} /\ UNCHANGED forgone
     \/ forgone' = forgone \cup {<<u, TargetItem(p)>>} /\ UNCHANGED deliveries
  /\ UNCHANGED <<onFeed, stored, subscribed, feedVars, sent, skipped, due>>

\* gather returns.
ItemSent(p) ==
  /\ poll[p].at = "send" /\ \A u \in Users : poll[p].to[u] \in {"no", "done"}
  /\ NextTarget(p)
  /\ UNCHANGED <<onFeed, stored, subscribed, feedVars, sendVars>>

\* The worker dies, or a step outside the handlers raises: recording an error of
\* the feed, the query of the targets, the start of the bot's client.
PollDies(p) ==
  /\ poll[p].at \notin {"off", "over"}
  /\ Finish(p)
  /\ forgone' = forgone \cup poll[p].list
  /\ UNCHANGED <<onFeed, stored, subscribed, feedVars, deliveries, sent, skipped, due>>

RssNext ==
  \/ PublishItem
  \/ \E u \in Users : ChangeSubscription(u)
  \/ \E p \in Polls :
       \/ BeginPoll(p) \/ Fetch(p) \/ StoreItems(p) \/ FetchSucceeds(p) \/ FetchFails(p)
       \/ ReadErrors(p) \/ WriteErrors(p) \/ QueryTargets(p) \/ PrepareItem(p) \/ MarkSkipped(p)
       \/ ItemSent(p) \/ PollDies(p)
       \/ \E u \in Users : Send(p, u) \/ MarkSent(p, u)

RssSpec == RssInit /\ [][RssNext]_rssVars

-----------------------------------------------------------------------------
(* Properties *)

\* However runs overlap, fail or die, a user gets an item once at most.
SentOnce == \A d \in DOMAIN sent : sent[d] <= 1

\* A recorded delivery was sent, or its item had too little content to send.
RecordIsTrue == \A d \in deliveries : sent[d] = 1 \/ d[2] \in skipped

\* Once every run is over, an item that was due to a user is recorded for that user,
\* unless the run gave it up by the cap, a failure or its death.
DueIsDelivered ==
  (\A p \in Polls : poll[p].at \in {"off", "over"}) => due \subseteq deliveries \cup forgone

\* What users get, and what is recorded of it.
DeliveryIsTrue == SentOnce /\ RecordIsTrue /\ DueIsDelivered

\* A feed is switched off only after MaxFetchErrors fetches in a row have failed, but where
\* one run has written the count between the read and the write of another, or a 304 has
\* ended a row of failures, which the count goes on from.
OffAfterFailures ==
  [][active /\ ~active' /\ ~overtaken' /\ ~unmodified' => failures' >= MaxFetchErrors]_rssVars
=============================================================================
