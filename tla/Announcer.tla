------------------------------ MODULE Announcer ------------------------------
(* How a torrent tells its trackers that it started, completed and stopped
   (libtransmission/announcer.cc).

   One torrent, with tiers of trackers.  Each tier has a queue of events, asks
   one tracker at a time and moves to the next one after an error.  Requests
   are answered in any order; the timeouts of the HTTP and UDP clients make
   sure that each is answered.

   Time is left out: a tier either has a time for its next announce (scrape) or
   has none, and an upkeep finds any of those times come.  That also stands for
   MaxAnnouncesPerUpkeep and the priorities of events, which only decide who
   waits for the next upkeep. *)
EXTENDS Naturals, Sequences, FiniteSets, FiniteSetsExt

CONSTANTS
    Tiers,          \* places of a tier in the announce list
    Trackers,       \* announce URLs
    Scrapable,      \* the trackers with a scrape URL
    Lists,          \* the announce lists a user may set: the trackers of each tier
    ScrapePaused,   \* shouldScrapePausedTorrents()
    MayUnregister,  \* whether trackers may answer "unregistered torrent"
    MaxQueue,       \* bound: events of a tier that are queued or sent
    MaxScrapes,     \* bound: scrapes of a tracker that are not answered
    MaxResets       \* bound: changes of the announce list

\* A list has every tracker once.
DistinctTrackers(l) ==
    \A t, u \in Tiers : \A i \in DOMAIN l[t], j \in DOMAIN l[u] :
        l[t][i] = l[u][j] => t = u /\ i = j

ASSUME AnnouncerAssumption ==
    /\ Scrapable \subseteq Trackers
    /\ Lists # {}
    /\ Lists \subseteq [Tiers -> Seq(Trackers)]
    /\ \A l \in Lists : DistinctTrackers(l)
    /\ ScrapePaused \in BOOLEAN
    /\ MayUnregister \in BOOLEAN
    /\ MaxQueue \in Nat
    /\ MaxScrapes \in Nat
    /\ MaxResets \in Nat

VARIABLES
    tiers,      \* tr_torrent_announcer::tiers
    running,    \* tr_torrent::is_running_
    done,       \* tr_torrent::is_done()
    downloaded, \* bytes_downloaded_.during_this_session() != 0
    announces,  \* announces sent and not answered
    scrapes,    \* number of scrapes sent to each tracker and not answered
    resets

vars == <<tiers, running, done, downloaded, announces, scrapes, resets>>

Event == {"none", "started", "completed", "stopped"}

------------------------------------------------------------------------------
(* The queue of events of a tier *)

\* tier_announce_remove_trailing()
RemoveTrailing(q, e) == SubSeq(q, 1, Max({0} \cup {i \in DOMAIN q : q[i] # e}))

DumpForStopFault(q) == <<>>

\* What a new "stopped" leaves of the queue: at most one "completed".
DumpForStop(q) ==
    IF \E i \in DOMAIN q : q[i] = "completed" THEN <<"completed">> ELSE <<>>

QueuedFault(q, e) ==
    LET kept == IF e = "stopped" THEN DumpForStop(q) ELSE q
    IN  Append(RemoveTrailing(kept, e), e)

\* The queue after tier_announce_event_push().
Queued(q, e) ==
    LET kept == IF e = "stopped" THEN DumpForStop(q) ELSE q
    IN  Append(RemoveTrailing(RemoveTrailing(kept, "none"), e), e)

------------------------------------------------------------------------------
(* A tier *)

Asks(x, k) == x.current # 0 /\ x.trackers[x.current] = k

\* tier_announce_event_push()
Push(x, e) == [x EXCEPT !.events = Queued(@, e), !.announceAt = TRUE]

NextIndexFault(x) == IF x.trackers = <<>> THEN 0 ELSE x.current + 1

NextIndex(x) == IF x.trackers = <<>> THEN 0 ELSE (x.current % Len(x.trackers)) + 1

UseNextTrackerFault(x) == [x EXCEPT !.current = NextIndex(x), !.isAnnouncing = FALSE]

\* The tier turns to its next tracker and forgets what it asked the old one.
UseNextTracker(x) ==
    [x EXCEPT !.current = NextIndex(x), !.isAnnouncing = FALSE, !.isScraping = FALSE]

\* scheduleNextScrape(): a paused torrent may have to do without scrapes.
ScheduleScrape(x) == [x EXCEPT !.scrapeAt = x.isRunning \/ ScrapePaused]

\* A tier just made.
NewTier(ks) ==
    ScheduleScrape(UseNextTracker(
        [trackers |-> ks, current |-> 0, events |-> <<>>, announceAt |-> FALSE,
         scrapeAt |-> FALSE, isAnnouncing |-> FALSE, isScraping |-> FALSE,
         isRunning |-> FALSE]))

IndexOf(ks, k) == IF \E i \in DOMAIN ks : ks[i] = k THEN CHOOSE i \in DOMAIN ks : ks[i] = k ELSE 0

\* The tiers that exist.
Live == {t \in Tiers : tiers[t].trackers # <<>>}

NeedsToAnnounce(t) ==
    /\ t \in Live
    /\ ~tiers[t].isAnnouncing
    /\ ~tiers[t].isScraping
    /\ tiers[t].announceAt
    /\ tiers[t].events # <<>>

NeedsToScrape(t) ==
    /\ t \in Live
    /\ ~tiers[t].isScraping
    /\ tiers[t].scrapeAt
    /\ \E k \in Scrapable : Asks(tiers[t], k)

Of(t) == {a \in announces : a.tier = t}

\* torrentAddAnnounce()
AddAnnounce(xs, e) ==
    [t \in Tiers |-> IF xs[t].trackers # <<>> THEN Push(xs[t], e) ELSE xs[t]]

\* Whether every tier may have n more events.
Room(n) == \A t \in Live : Len(tiers[t].events) + Cardinality(Of(t)) + n <= MaxQueue

Init ==
    /\ \E l \in Lists : tiers = [t \in Tiers |-> NewTier(l[t])]
    /\ running = FALSE
    /\ done \in BOOLEAN
    /\ downloaded = FALSE
    /\ announces = {}
    /\ scrapes = [k \in Trackers |-> 0]
    /\ resets = 0

------------------------------------------------------------------------------
(* The torrent *)

\* recheck_completeness() announces a completeness that this session reached.
Completed(d) ==
    IF d /\ ~done /\ downloaded THEN AddAnnounce(tiers, "completed") ELSE tiers

Recheck(d) ==
    /\ d # done
    /\ Room(1)
    /\ done' = d
    /\ tiers' = Completed(d)
    /\ UNCHANGED <<running, downloaded, announces, scrapes, resets>>

\* start_in_session_thread() checks the completeness first.
Start(d) ==
    /\ ~running
    /\ Room(2)
    /\ done' = d
    /\ running' = TRUE
    /\ downloaded' = FALSE
    /\ tiers' = AddAnnounce(Completed(d), "started")
    /\ UNCHANGED <<announces, scrapes, resets>>

\* stop_now() does not look whether the torrent runs.
Stop ==
    /\ Room(1)
    /\ running' = FALSE
    /\ tiers' = AddAnnounce(tiers, "stopped")
    /\ UNCHANGED <<done, downloaded, announces, scrapes, resets>>

Download ==
    /\ running
    /\ ~done
    /\ downloaded' = TRUE
    /\ UNCHANGED <<tiers, running, done, announces, scrapes, resets>>

ManualAnnounce ==
    /\ running
    /\ Room(1)
    /\ tiers' = AddAnnounce(tiers, "none")
    /\ UNCHANGED <<running, done, downloaded, announces, scrapes, resets>>

ChangeMyPort ==
    /\ running
    /\ Room(1)
    /\ tiers' = AddAnnounce(tiers, "started")
    /\ UNCHANGED <<running, done, downloaded, announces, scrapes, resets>>

------------------------------------------------------------------------------
(* A new announce list *)

\* The new tier for the trackers ks: it takes over the events and the current
\* tracker of the last old tier that it shares a tracker with.
Inherits(ks) ==
    LET known == {i \in DOMAIN ks : \E t \in Tiers : IndexOf(tiers[t].trackers, ks[i]) # 0}
        old == tiers[CHOOSE t \in Tiers : IndexOf(tiers[t].trackers, ks[Max(known)]) # 0]
    IN  IF known = {} THEN NewTier(ks)
        ELSE [NewTier(ks) EXCEPT
                 !.events = old.events,
                 !.current = IF old.current = 0 THEN 0
                             ELSE IndexOf(ks, old.trackers[old.current])]

\* "kickstart any tiers that didn't get started"
Kickstart(x) == IF running /\ x.current = 0 /\ x.trackers # <<>>
                THEN Push(UseNextTracker(x), "started") ELSE x

\* The answers to the old tiers find no tier of their id any more.
Reset(l) ==
    /\ resets < MaxResets
    /\ Room(1)
    /\ resets' = resets + 1
    /\ tiers' = [t \in Tiers |-> Kickstart(Inherits(l[t]))]
    /\ announces' = {}
    /\ UNCHANGED <<running, done, downloaded, scrapes>>

------------------------------------------------------------------------------
(* Talking to trackers *)

\* The announce of tier t; n tells it from others alike that are unanswered.
Request(t, n) ==
    [tier |-> t, event |-> Head(tiers[t].events), running |-> running, n |-> n]

\* scrapeAndAnnounceMore(): scrape the tiers in ts, announce the tiers in as.
\* An announce without a tracker would read through a null pointer.
Upkeep(ts, as) ==
    /\ \A t \in ts : NeedsToScrape(t)
    /\ \A t \in as : NeedsToAnnounce(t) /\ tiers[t].current # 0
    /\ \A k \in Trackers :
          (\E t \in ts : Asks(tiers[t], k)) => scrapes[k] < MaxScrapes
    /\ scrapes' = [k \in Trackers |->
                      IF \E t \in ts : Asks(tiers[t], k) THEN scrapes[k] + 1 ELSE scrapes[k]]
    /\ \E n \in 1..MaxQueue :
          /\ \A t \in as : Request(t, n) \notin announces
          /\ \A m \in 1..(n - 1) : \E t \in as : Request(t, m) \in announces
          /\ announces' = announces \cup {Request(t, n) : t \in as}
    /\ tiers' = [t \in Tiers |->
                    [tiers[t] EXCEPT
                        !.events = IF t \in as THEN Tail(@) ELSE @,
                        !.isAnnouncing = @ \/ t \in as,
                        !.isScraping = @ \/ t \in ts]]
    /\ UNCHANGED <<running, done, downloaded, resets>>

AnnounceAckedFault2(a) ==
    /\ announces' = announces \ {a}
    /\ \E again \in BOOLEAN :
          LET x == [tiers[a.tier] EXCEPT !.isAnnouncing = FALSE, !.isRunning = a.running]
          IN  tiers' = [tiers EXCEPT ![a.tier] = IF again THEN ScheduleScrape(x) ELSE x]
    /\ UNCHANGED <<running, done, downloaded, scrapes, resets>>

AnnounceAckedFault1(a) ==
    /\ announces' = announces \ {a}
    /\ LET x == [tiers[a.tier] EXCEPT !.isRunning = a.running]
       IN  tiers' = [tiers EXCEPT ![a.tier] =
                        IF a.event # "stopped" /\ x.events = <<>> THEN Push(x, "none") ELSE x]
    /\ UNCHANGED <<running, done, downloaded, scrapes, resets>>

\* A good answer. Whether it says enough to plan the next scrape is up to the
\* tracker.
AnnounceAcked(a) ==
    /\ announces' = announces \ {a}
    /\ \E again \in BOOLEAN :
          LET x == [tiers[a.tier] EXCEPT !.isAnnouncing = FALSE, !.isRunning = a.running]
              y == IF again THEN ScheduleScrape(x) ELSE x
          IN  tiers' = [tiers EXCEPT ![a.tier] =
                           IF a.event # "stopped" /\ y.events = <<>> THEN Push(y, "none") ELSE y]
    /\ UNCHANGED <<running, done, downloaded, scrapes, resets>>

\* No connection, a timeout or an error: on_announce_error() tries the event
\* again with the next tracker.
AnnounceFailed(a) ==
    /\ announces' = announces \ {a}
    /\ tiers' = [tiers EXCEPT ![a.tier] = Push(UseNextTracker(@), a.event)]
    /\ UNCHANGED <<running, done, downloaded, scrapes, resets>>

\* The tracker does not know the torrent: the event is dropped.
AnnounceUnregistered(a) ==
    /\ MayUnregister
    /\ announces' = announces \ {a}
    /\ tiers' = [tiers EXCEPT ![a.tier] = UseNextTracker(@)]
    /\ UNCHANGED <<running, done, downloaded, scrapes, resets>>

\* onScrapeDone() changes the tier that asks this tracker now, if any.
ScrapeDone(k, ok) ==
    /\ scrapes[k] > 0
    /\ scrapes' = [scrapes EXCEPT ![k] = @ - 1]
    /\ tiers' = [t \in Tiers |->
                    IF ~Asks(tiers[t], k) THEN tiers[t]
                    ELSE IF ok THEN ScheduleScrape([tiers[t] EXCEPT !.isScraping = FALSE])
                    ELSE ScheduleScrape(UseNextTracker(tiers[t]))]
    /\ UNCHANGED <<running, done, downloaded, announces, resets>>

SomeUpkeep == \E ts, as \in SUBSET Live : ts \cup as # {} /\ Upkeep(ts, as)

Next ==
    \/ \E d \in BOOLEAN : Recheck(d) \/ Start(d)
    \/ Stop
    \/ Download
    \/ ManualAnnounce
    \/ ChangeMyPort
    \/ \E l \in Lists : Reset(l)
    \/ SomeUpkeep
    \/ \E a \in announces : AnnounceAcked(a) \/ AnnounceFailed(a) \/ AnnounceUnregistered(a)
    \/ \E k \in Trackers, ok \in BOOLEAN : ScrapeDone(k, ok)

Spec == Init /\ [][Next]_vars

\* The clients answer every request, and every time to announce comes: some
\* upkeep finds the tier due, as often as it is ready.
FairSpec ==
    /\ Spec
    /\ WF_vars(\E a \in announces : AnnounceAcked(a) \/ AnnounceFailed(a))
    /\ \A k \in Scrapable : WF_vars(\E ok \in BOOLEAN : ScrapeDone(k, ok))
    /\ \A t \in Tiers : SF_vars(\E ts \in SUBSET Live, as \in SUBSET Live : t \in as /\ Upkeep(ts, as))

------------------------------------------------------------------------------
(* Properties *)

TierRecord ==
    [trackers : Seq(Trackers), current : Nat, events : Seq(Event), announceAt : BOOLEAN,
     scrapeAt : BOOLEAN, isAnnouncing : BOOLEAN, isScraping : BOOLEAN, isRunning : BOOLEAN]

\* Every variable keeps its type, and the current tracker is one of the tier's.
TypeOK ==
    /\ tiers \in [Tiers -> TierRecord]
    /\ \A t \in Tiers : tiers[t].current <= Len(tiers[t].trackers)
    /\ running \in BOOLEAN
    /\ done \in BOOLEAN
    /\ downloaded \in BOOLEAN
    /\ announces \subseteq [tier : Tiers, event : Event, running : BOOLEAN, n : 1..MaxQueue]
    /\ scrapes \in [Trackers -> 0..MaxScrapes]
    /\ resets \in 0..MaxResets

\* A periodic announce waits for nothing behind it, no event follows its like,
\* and nothing but a completion is told before a stop.
Ordered(q) ==
    /\ \A i \in DOMAIN q : q[i] = "none" => i = Len(q)
    /\ \A i \in 2..Len(q) : q[i] # q[i - 1]
    /\ \A j \in DOMAIN q : q[j] = "stopped" => \A i \in 1..(j - 1) : q[i] = "completed"

\* What the three special cases of tier_announce_event_push() are for: however
\* starts, stops, completions, retries and list changes mix, the events of a
\* tier are in an order that makes sense to a tracker.
QueueOrdered == \A t \in Tiers : Ordered(tiers[t].events)

\* The flags that keep a tier from announcing and scraping are up only while an
\* answer is awaited that will take them down.
FlagsAnswered ==
    \A t \in Live :
        /\ tiers[t].isAnnouncing => Of(t) # {}
        /\ tiers[t].isScraping => \E k \in Trackers : Asks(tiers[t], k) /\ scrapes[k] > 0

\* Whether tier t still has to tell its trackers of a completion.
Owes(t) ==
    \/ \E i \in DOMAIN tiers[t].events : tiers[t].events[i] = "completed"
    \/ \E a \in Of(t) : a.event = "completed"

\* A completion is told: only an answer to it, or a new announce list, takes it
\* from a tier. Stops, restarts and errors do not.
CompletionKept ==
    [][\A t \in Tiers : Owes(t) /\ ~Owes(t)' =>
          \/ \E l \in Lists : Reset(l)
          \/ \E a \in Of(t) : a.event = "completed" /\ (AnnounceAcked(a) \/ AnnounceUnregistered(a))]_vars

\* Tier t goes on announcing: something that is not a stop is the last word.
KeepsAnnouncing(t) ==
    LET x == tiers[t]
    IN  IF x.events = <<>> THEN \E a \in Of(t) : a.event # "stopped"
        ELSE x.announceAt /\ x.events[Len(x.events)] # "stopped"

\* A running torrent falls silent at a tier in three ways only: its trackers do
\* not know it, its list is changed, or a stop sent before it started fails.
SilencedOnlyBy ==
    [][\A t \in Live : running /\ running' /\ KeepsAnnouncing(t) /\ ~KeepsAnnouncing(t)' =>
          \/ \E l \in Lists : Reset(l)
          \/ \E a \in Of(t) : AnnounceUnregistered(a)
          \/ \E a \in Of(t) : a.event = "stopped" /\ AnnounceFailed(a)]_vars

\* No upkeep dereferences a null tracker: the assertion of tierAnnounce().  It does not
\* always hold: resetTorrent() may leave a tier without a current tracker (README,
\* section 6).
AnnounceHasTracker == \A t \in Tiers : NeedsToAnnounce(t) => tiers[t].current # 0

\* "the queue is empty, so enqueue a periodic update": a running torrent goes on
\* announcing.  It does not always: a failed "stopped" is queued again behind what was
\* queued since (README, section 6).
RunningAnnounces == running => \A t \in Live : KeepsAnnouncing(t)

\* An event that has a time is sent, unless the list changes or the program has
\* crashed.
EventsSent ==
    \A t \in Tiers :
        (t \in Live /\ tiers[t].announceAt /\ tiers[t].events # <<>>)
            ~> (Of(t) # {} \/ ~AnnounceHasTracker \/ ~tiers[t].announceAt \/ t \notin Live)
=============================================================================
