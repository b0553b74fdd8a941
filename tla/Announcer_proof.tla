--------------------------- MODULE Announcer_proof ---------------------------
(***************************************************************************)
(* What module Announcer promises for any number of tiers, trackers and    *)
(* announce lists and any bounds: types, the order of the queued events,   *)
(* flags that an answer will take down (together the inductive invariant   *)
(* IInv), and that neither a completion nor the announces of a running     *)
(* torrent are lost except where the code gives them up.                   *)
(***************************************************************************)
EXTENDS Announcer, TLAPS, WellFoundedInduction

-----------------------------------------------------------------------------
(* Max of a bounded set of numbers.                                        *)

LEMMA NatMin ==
    ASSUME NEW T \in SUBSET Nat, T # {}
    PROVE  \E m \in T : \A k \in T : k >= m
<1>1. PICK m \in T : \A k \in T : <<k, m>> \notin OpToRel(<, Nat)
  BY NatLessThanWellFounded, WFMin, Zenon
<1>2. \A k \in T : ~(k < m)
  BY <1>1 DEF OpToRel
<1> QED
  BY <1>2

LEMMA MaxIsMax ==
    ASSUME NEW n \in Nat, NEW S \in SUBSET (0 .. n), S # {}
    PROVE  Max(S) \in S /\ \A y \in S : Max(S) >= y
<1>1. PICK z \in S : TRUE
  OBVIOUS
<1>2. \A x \in S : x \in Nat /\ n - x \in Nat
  OBVIOUS
<1> DEFINE below == {k \in Nat : n - k \in S}
<1>3. n - z \in below
  BY <1>2
<1>4. PICK m \in below : \A k \in below : k >= m
  <2> HIDE DEF below
  <2> QED
    BY <1>3, NatMin, below \subseteq Nat DEF below
<1>5. \A y \in S : n - m >= y
  <2> SUFFICES ASSUME NEW y \in S PROVE n - m >= y
    OBVIOUS
  <2>1. n - y \in Nat /\ n - (n - y) = y
    BY <1>2
  <2>2. n - y \in below
    BY <2>1
  <2>3. m \in Nat
    BY <1>4
  <2> HIDE DEF below
  <2>4. n - y >= m
    BY <1>4, <2>2
  <2> QED
    BY <1>2, <2>3, <2>4
<1>6. n - m \in S
  BY <1>4
<1> QED
  BY <1>5, <1>6 DEF Max

-----------------------------------------------------------------------------
(* The queue of events.                                                    *)

\* Removing trailing events leaves a prefix that ends in something else.
LEMMA RemoveTrailingPrefix ==
    ASSUME NEW q \in Seq(Event), NEW e
    PROVE  LET r == RemoveTrailing(q, e)
           IN  /\ r \in Seq(Event)
               /\ Len(r) <= Len(q)
               /\ \A i \in 1 .. Len(r) : r[i] = q[i]
               /\ Len(r) > 0 => r[Len(r)] # e
               /\ \A i \in (Len(r) + 1) .. Len(q) : q[i] = e
<1> DEFINE S == {0} \cup {i \in DOMAIN q : q[i] # e}
           n == Max(S)
<1>1. S \in SUBSET (0 .. Len(q)) /\ S # {} /\ Len(q) \in Nat
  OBVIOUS
<1>2. n \in S /\ \A y \in S : n >= y
  <2> HIDE DEF S
  <2> QED
    BY <1>1, MaxIsMax
<1>3. n \in 0 .. Len(q) /\ RemoveTrailing(q, e) = SubSeq(q, 1, n)
  BY <1>1, <1>2 DEF RemoveTrailing
<1>4. n > 0 => q[n] # e
  BY <1>2
<1>5. \A i \in (n + 1) .. Len(q) : q[i] = e
  BY <1>2, <1>3
<1> HIDE DEF n
<1> QED
  BY <1>3, <1>4, <1>5

LEMMA DumpForStopFacts ==
    ASSUME NEW q \in Seq(Event)
    PROVE  /\ DumpForStop(q) \in Seq(Event)
           /\ Ordered(DumpForStop(q))
           /\ \A i \in 1 .. Len(DumpForStop(q)) : DumpForStop(q)[i] = "completed"
           /\ (\E i \in DOMAIN q : q[i] = "completed")
                 => Len(DumpForStop(q)) = 1 /\ DumpForStop(q)[1] = "completed"
<1>1. CASE \E i \in DOMAIN q : q[i] = "completed"
  <2>1. DumpForStop(q) = <<"completed">>
    BY <1>1 DEF DumpForStop
  <2>2. <<"completed">> \in Seq(Event) /\ Len(<<"completed">>) = 1 /\ <<"completed">>[1] = "completed"
    BY DEF Event
  <2> QED
    BY <2>1, <2>2 DEF Ordered
<1>2. CASE ~ \E i \in DOMAIN q : q[i] = "completed"
  <2>1. DumpForStop(q) = << >>
    BY <1>2 DEF DumpForStop
  <2> QED
    BY <1>2, <2>1 DEF Ordered
<1> QED
  BY <1>1, <1>2

\* A new event goes last, keeps the queue in order, and loses no completion.
LEMMA QueuedFacts ==
    ASSUME NEW q \in Seq(Event), NEW e \in Event
    PROVE  /\ Queued(q, e) \in Seq(Event)
           /\ Queued(q, e) # << >>
           /\ Queued(q, e)[Len(Queued(q, e))] = e
           /\ Ordered(q) => Ordered(Queued(q, e))
           /\ (\E i \in DOMAIN q : q[i] = "completed")
                 => \E i \in DOMAIN Queued(q, e) : Queued(q, e)[i] = "completed"
<1> DEFINE kept == IF e = "stopped" THEN DumpForStop(q) ELSE q
           r == RemoveTrailing(kept, "none")
           s == RemoveTrailing(r, e)
<1>1. /\ kept \in Seq(Event)
      /\ Ordered(q) => Ordered(kept)
      /\ e = "stopped" => \A i \in 1 .. Len(kept) : kept[i] = "completed"
      /\ (\E i \in DOMAIN q : q[i] = "completed") => \E i \in 1 .. Len(kept) : kept[i] = "completed"
  BY DumpForStopFacts
<1>2. Queued(q, e) = Append(s, e)
  BY DEF Queued
<1> HIDE DEF kept
<1>3. /\ r \in Seq(Event)
      /\ Len(r) <= Len(kept)
      /\ \A i \in 1 .. Len(r) : r[i] = kept[i]
      /\ Len(r) > 0 => r[Len(r)] # "none"
      /\ \A i \in (Len(r) + 1) .. Len(kept) : kept[i] = "none"
  BY <1>1, RemoveTrailingPrefix
<1> HIDE DEF r
<1>4. /\ s \in Seq(Event)
      /\ Len(s) <= Len(r)
      /\ \A i \in 1 .. Len(s) : s[i] = r[i]
      /\ Len(s) > 0 => s[Len(s)] # e
      /\ \A i \in (Len(s) + 1) .. Len(r) : r[i] = e
  BY <1>3, RemoveTrailingPrefix
<1> HIDE DEF s
<1>5. /\ Append(s, e) \in Seq(Event)
      /\ Len(Append(s, e)) = Len(s) + 1
      /\ Append(s, e)[Len(s) + 1] = e
      /\ \A i \in 1 .. Len(s) : Append(s, e)[i] = kept[i]
  BY <1>3, <1>4
<1>6. ASSUME Ordered(q) PROVE Ordered(Append(s, e))
  <2>1. \A i \in 1 .. Len(s) : kept[i] # "none"
    BY <1>1, <1>3, <1>4, <1>6 DEF Ordered
  <2>2. \A i \in 2 .. Len(s) : kept[i] # kept[i - 1]
    BY <1>1, <1>3, <1>4, <1>6 DEF Ordered
  <2>3. Len(s) > 0 => kept[Len(s)] # e
    BY <1>3, <1>4
  <2>4. \A j \in 1 .. Len(s) : kept[j] = "stopped" => \A i \in 1 .. (j - 1) : kept[i] = "completed"
    BY <1>1, <1>3, <1>4, <1>6 DEF Ordered
  <2>5. e = "stopped" => \A i \in 1 .. Len(s) : kept[i] = "completed"
    BY <1>1, <1>3, <1>4
  <2> DEFINE a == Append(s, e)
  <2>6. DOMAIN a = 1 .. (Len(s) + 1) /\ Len(s) \in Nat
    BY <1>4, <1>5
  <2>7. \A i \in DOMAIN a : i # Len(s) + 1 => i \in 1 .. Len(s) /\ a[i] = kept[i]
    BY <1>5, <2>6
  <2> HIDE DEF a
  <2>8. \A i \in 2 .. Len(a) : a[i] # a[i - 1]
    BY <1>5, <2>2, <2>3, <2>6 DEF a
  <2>9. \A j \in DOMAIN a : a[j] = "stopped" => \A i \in 1 .. (j - 1) : a[i] = "completed"
    BY <1>5, <2>4, <2>5, <2>6 DEF a
  <2>10. \A i \in DOMAIN a : a[i] = "none" => i = Len(a)
    BY <1>5, <2>1, <2>7 DEF a
  <2> QED
    BY <2>8, <2>9, <2>10 DEF Ordered, a
<1>7. ASSUME NEW i \in DOMAIN q, q[i] = "completed"
      PROVE  \E j \in DOMAIN Append(s, e) : Append(s, e)[j] = "completed"
  <2>1. PICK j \in 1 .. Len(kept) : kept[j] = "completed"
    BY <1>1, <1>7
  <2>2. j \in 1 .. Len(r) /\ r[j] = "completed"
    BY <2>1, <1>1, <1>3
  <2>3. CASE j \in 1 .. Len(s)
    BY <2>1, <2>3, <1>4, <1>5
  <2>4. CASE j \notin 1 .. Len(s)
    <3>1. e = "completed"
      BY <2>2, <2>4, <1>3, <1>4
    <3> QED
      BY <3>1, <1>4, <1>5
  <2> QED
    BY <2>3, <2>4
<1> QED
  BY <1>2, <1>5, <1>6, <1>7, <1>4

-----------------------------------------------------------------------------
(* Tiers.                                                                  *)

TierOK(x) ==
    /\ x \in TierRecord
    /\ x.current <= Len(x.trackers)
    /\ Ordered(x.events)

LEMMA PushFacts ==
    ASSUME NEW x, TierOK(x), NEW e \in Event
    PROVE  /\ TierOK(Push(x, e))
           /\ Push(x, e).events = Queued(x.events, e)
           /\ Push(x, e).announceAt
           /\ Push(x, e).trackers = x.trackers
           /\ Push(x, e).current = x.current
           /\ Push(x, e).isAnnouncing = x.isAnnouncing
           /\ Push(x, e).isScraping = x.isScraping
<1>1. x.events \in Seq(Event) /\ Ordered(x.events)
  BY DEF TierOK, TierRecord
<1>2. Queued(x.events, e) \in Seq(Event) /\ Ordered(Queued(x.events, e))
  BY <1>1, QueuedFacts
<1> QED
  BY <1>2 DEF Push, TierOK, TierRecord

LEMMA UseNextTrackerFacts ==
    ASSUME NEW x, TierOK(x)
    PROVE  /\ TierOK(UseNextTracker(x))
           /\ UseNextTracker(x).events = x.events
           /\ UseNextTracker(x).announceAt = x.announceAt
           /\ UseNextTracker(x).trackers = x.trackers
           /\ ~UseNextTracker(x).isAnnouncing
           /\ ~UseNextTracker(x).isScraping
<1>1. x.trackers \in Seq(Trackers) /\ x.current \in Nat /\ x.current <= Len(x.trackers)
  BY DEF TierOK, TierRecord
<1>2. x.trackers # << >> => Len(x.trackers) \in Nat \ {0}
  BY <1>1
<1>3. NextIndex(x) \in Nat /\ NextIndex(x) <= Len(x.trackers)
  <2>1. CASE x.trackers = << >>
    BY <2>1, <1>1 DEF NextIndex
  <2>2. CASE x.trackers # << >>
    <3>1. NextIndex(x) = (x.current % Len(x.trackers)) + 1
      BY <2>2 DEF NextIndex
    <3>2. x.current % Len(x.trackers) \in 0 .. (Len(x.trackers) - 1)
      BY <1>1, <1>2, <2>2
    <3> QED
      BY <1>2, <2>2, <3>1, <3>2
  <2> QED
    BY <2>1, <2>2
<1> QED
  BY <1>3 DEF UseNextTracker, TierOK, TierRecord

LEMMA ScheduleScrapeFacts ==
    ASSUME NEW x, TierOK(x)
    PROVE  /\ TierOK(ScheduleScrape(x))
           /\ ScheduleScrape(x).events = x.events
           /\ ScheduleScrape(x).announceAt = x.announceAt
           /\ ScheduleScrape(x).trackers = x.trackers
           /\ ScheduleScrape(x).current = x.current
           /\ ScheduleScrape(x).isAnnouncing = x.isAnnouncing
           /\ ScheduleScrape(x).isScraping = x.isScraping
  BY AnnouncerAssumption DEF ScheduleScrape, TierOK, TierRecord

LEMMA NewTierFacts ==
    ASSUME NEW ks \in Seq(Trackers)
    PROVE  /\ TierOK(NewTier(ks))
           /\ NewTier(ks).trackers = ks
           /\ ~NewTier(ks).isAnnouncing
           /\ ~NewTier(ks).isScraping
<1> DEFINE x == [trackers |-> ks, current |-> 0, events |-> << >>, announceAt |-> FALSE,
                 scrapeAt |-> FALSE, isAnnouncing |-> FALSE, isScraping |-> FALSE,
                 isRunning |-> FALSE]
<1>1. TierOK(x) /\ x.trackers = ks
  BY DEF TierOK, TierRecord, Ordered
<1>2. NewTier(ks) = ScheduleScrape(UseNextTracker(x))
  BY DEF NewTier
<1> HIDE DEF x
<1> QED
  BY <1>1, <1>2, UseNextTrackerFacts, ScheduleScrapeFacts

LEMMA IndexOfFacts ==
    ASSUME NEW ks \in Seq(Trackers), NEW k
    PROVE  IndexOf(ks, k) \in Nat /\ IndexOf(ks, k) <= Len(ks)
  BY DEF IndexOf

\* What a tier of an edited list takes over leaves it in order, and waiting for
\* no answer.
LEMMA InheritsFacts ==
    ASSUME \A t \in Tiers : TierOK(tiers[t]), NEW ks \in Seq(Trackers)
    PROVE  /\ TierOK(Inherits(ks))
           /\ ~Inherits(ks).isAnnouncing
           /\ ~Inherits(ks).isScraping
<1> DEFINE known == {i \in DOMAIN ks : \E t \in Tiers : IndexOf(tiers[t].trackers, ks[i]) # 0}
           from == CHOOSE t \in Tiers : IndexOf(tiers[t].trackers, ks[Max(known)]) # 0
           old == tiers[from]
           now == IF old.current = 0 THEN 0 ELSE IndexOf(ks, old.trackers[old.current])
<1>1. CASE known = {}
  BY <1>1, NewTierFacts DEF Inherits
<1>2. CASE known # {}
  <2>1. Max(known) \in known
    <3>1. known \in SUBSET (0 .. Len(ks)) /\ Len(ks) \in Nat
      OBVIOUS
    <3> HIDE DEF known
    <3> QED
      BY <1>2, <3>1, MaxIsMax
  <2>2. from \in Tiers
    BY <2>1
  <2>3. TierOK(old)
    BY <2>2
  <2>4. Inherits(ks) = [NewTier(ks) EXCEPT !.events = old.events, !.current = now]
    BY <1>2 DEF Inherits
  <2> HIDE DEF from, old
  <2>5. now \in Nat /\ now <= Len(ks)
    BY IndexOfFacts
  <2> HIDE DEF now
  <2> QED
    BY <2>3, <2>4, <2>5, NewTierFacts DEF TierOK, TierRecord
<1> QED
  BY <1>1, <1>2

LEMMA KickstartFacts ==
    ASSUME NEW x, TierOK(x), ~x.isAnnouncing, ~x.isScraping
    PROVE  TierOK(Kickstart(x)) /\ ~Kickstart(x).isAnnouncing /\ ~Kickstart(x).isScraping
<1>1. TierOK(UseNextTracker(x)) /\ ~UseNextTracker(x).isAnnouncing /\ ~UseNextTracker(x).isScraping
  BY UseNextTrackerFacts
<1>2. "started" \in Event
  BY DEF Event
<1> QED
  BY <1>1, <1>2, PushFacts DEF Kickstart

-----------------------------------------------------------------------------
(* The invariant: types, the order of the events, and flags that answers   *)
(* will take down.  It is inductive as it stands.                          *)

IInv == TypeOK /\ QueueOrdered /\ FlagsAnswered

TiersOK == tiers \in [Tiers -> TierRecord] /\ \A t \in Tiers : TierOK(tiers[t])

RestOK ==
    /\ running \in BOOLEAN
    /\ done \in BOOLEAN
    /\ downloaded \in BOOLEAN
    /\ announces \subseteq [tier : Tiers, event : Event, running : BOOLEAN, n : 1..MaxQueue]
    /\ scrapes \in [Trackers -> 0..MaxScrapes]
    /\ resets \in 0..MaxResets

LEMMA Parts == IInv <=> TiersOK /\ RestOK /\ FlagsAnswered
  BY DEF IInv, TypeOK, QueueOrdered, TiersOK, TierOK, RestOK

LEMMA PartsNext == IInv' <=> TiersOK' /\ RestOK' /\ FlagsAnswered'
  BY DEF IInv, TypeOK, QueueOrdered, TiersOK, TierOK, RestOK

HasCompleted(x) == \E i \in DOMAIN x.events : x.events[i] = "completed"

\* Tier y is tier x with more events, none of its completions lost.
Extends(x, y) ==
    /\ y.trackers = x.trackers
    /\ y.current = x.current
    /\ y.isAnnouncing = x.isAnnouncing
    /\ y.isScraping = x.isScraping
    /\ HasCompleted(x) => HasCompleted(y)

LastWord(x, e) ==
    x.announceAt /\ x.events # << >> /\ x.events[Len(x.events)] = e

LEMMA PushExtends ==
    ASSUME NEW x, TierOK(x), NEW e \in Event
    PROVE  Extends(x, Push(x, e)) /\ LastWord(Push(x, e), e)
<1>1. x.events \in Seq(Event)
  BY DEF TierOK, TierRecord
<1>2. /\ Queued(x.events, e) # << >>
      /\ Queued(x.events, e)[Len(Queued(x.events, e))] = e
      /\ (\E i \in DOMAIN x.events : x.events[i] = "completed")
            => \E i \in DOMAIN Queued(x.events, e) : Queued(x.events, e)[i] = "completed"
  BY <1>1, QueuedFacts
<1>3. Push(x, e).events = Queued(x.events, e)
  BY PushFacts
<1>4. HasCompleted(x) => HasCompleted(Push(x, e))
  BY <1>2, <1>3, Zenon DEF HasCompleted
<1> QED
  BY <1>2, <1>3, <1>4, PushFacts DEF Extends, LastWord

LEMMA AddAnnounceFacts ==
    ASSUME NEW xs \in [Tiers -> TierRecord], \A t \in Tiers : TierOK(xs[t]), NEW e \in Event
    PROVE  /\ AddAnnounce(xs, e) \in [Tiers -> TierRecord]
           /\ \A t \in Tiers :
                 /\ TierOK(AddAnnounce(xs, e)[t])
                 /\ Extends(xs[t], AddAnnounce(xs, e)[t])
                 /\ xs[t].trackers = << >> \/ LastWord(AddAnnounce(xs, e)[t], e)
<1> SUFFICES ASSUME NEW t \in Tiers
             PROVE  /\ AddAnnounce(xs, e)[t] \in TierRecord
                    /\ TierOK(AddAnnounce(xs, e)[t])
                    /\ Extends(xs[t], AddAnnounce(xs, e)[t])
                    /\ xs[t].trackers = << >> \/ LastWord(AddAnnounce(xs, e)[t], e)
  BY DEF AddAnnounce
<1>1. TierOK(xs[t]) /\ xs[t].events \in Seq(Event)
  BY DEF TierRecord
<1>2. CASE xs[t].trackers = << >>
  BY <1>1, <1>2 DEF AddAnnounce, Extends, TierOK
<1>3. CASE xs[t].trackers # << >>
  <2>1. AddAnnounce(xs, e)[t] = Push(xs[t], e)
    BY <1>3 DEF AddAnnounce
  <2>2. Extends(xs[t], Push(xs[t], e)) /\ LastWord(Push(xs[t], e), e)
    BY <1>1, PushExtends
  <2> QED
    BY <1>1, <2>1, <2>2, PushFacts DEF TierOK
<1> QED
  BY <1>2, <1>3

LEMMA CompletedFacts ==
    ASSUME TiersOK, NEW d \in BOOLEAN
    PROVE  /\ Completed(d) \in [Tiers -> TierRecord]
           /\ \A t \in Tiers :
                 /\ TierOK(Completed(d)[t])
                 /\ Extends(tiers[t], Completed(d)[t])
                 /\ \/ tiers[t].trackers = << >>
                    \/ Completed(d) = tiers
                    \/ LastWord(Completed(d)[t], "completed")
<1>1. "completed" \in Event
  BY DEF Event
<1>2. \A t \in Tiers : Extends(tiers[t], tiers[t])
  BY DEF Extends
<1> QED
  BY <1>1, <1>2, AddAnnounceFacts DEF Completed, TiersOK

\* A queue that loses its first event stays in order.
LEMMA TailFacts ==
    ASSUME NEW q \in Seq(Event), q # << >>
    PROVE  /\ Tail(q) \in Seq(Event)
           /\ Len(Tail(q)) = Len(q) - 1
           /\ \A i \in 1 .. Len(Tail(q)) : Tail(q)[i] = q[i + 1]
           /\ Head(q) = q[1] /\ Head(q) \in Event
           /\ Ordered(q) => Ordered(Tail(q))
<1>1. /\ Tail(q) \in Seq(Event)
      /\ Len(Tail(q)) = Len(q) - 1
      /\ \A i \in 1 .. Len(Tail(q)) : Tail(q)[i] = q[i + 1]
      /\ Head(q) = q[1] /\ Head(q) \in Event
      /\ DOMAIN q = 1 .. Len(q) /\ DOMAIN Tail(q) = 1 .. Len(Tail(q)) /\ Len(q) \in Nat
  OBVIOUS
<1>2. ASSUME Ordered(q) PROVE Ordered(Tail(q))
  <2> DEFINE r == Tail(q)
  <2>1. \A i \in DOMAIN r : r[i] = "none" => i = Len(r)
    BY <1>1, <1>2 DEF Ordered
  <2>2. \A i \in 2 .. Len(r) : r[i] # r[i - 1]
    BY <1>1, <1>2 DEF Ordered
  <2>3. \A j \in DOMAIN r : r[j] = "stopped" => \A i \in 1 .. (j - 1) : r[i] = "completed"
    <3> SUFFICES ASSUME NEW j \in DOMAIN r, r[j] = "stopped", NEW i \in 1 .. (j - 1)
                 PROVE  r[i] = "completed"
      OBVIOUS
    <3>1. /\ j + 1 \in DOMAIN q /\ q[j + 1] = "stopped"
          /\ i + 1 \in 1 .. ((j + 1) - 1) /\ r[i] = q[i + 1]
      BY <1>1
    <3>2. \A k \in 1 .. ((j + 1) - 1) : q[k] = "completed"
      BY ONLY <3>1, <1>2 DEF Ordered
    <3> QED
      BY <3>1, <3>2
  <2> HIDE DEF r
  <2>4. Ordered(r)
    BY <2>1, <2>2, <2>3 DEF Ordered
  <2> QED
    BY <2>4 DEF r
<1> QED
  BY <1>1, <1>2

-----------------------------------------------------------------------------
(* One lemma for each kind of step: the invariant is kept, no completion is *)
(* lost, and which tiers go on announcing.                                  *)

\* Tiers that only get more events keep what they have and what they await.
LEMMA AddStep ==
    ASSUME IInv, RestOK',
           announces' = announces, scrapes' = scrapes,
           tiers' \in [Tiers -> TierRecord],
           \A t \in Tiers : TierOK(tiers'[t]) /\ Extends(tiers[t], tiers'[t])
    PROVE  IInv' /\ \A t \in Tiers : Owes(t) => Owes(t)'
<1>1. TiersOK'
  BY DEF TiersOK, TierOK
<1>2. FlagsAnswered'
  BY DEF IInv, FlagsAnswered, Live, Of, Asks, Extends
<1>3. ASSUME NEW t \in Tiers, Owes(t) PROVE Owes(t)'
  BY <1>3 DEF Owes, Of, Extends, HasCompleted
<1> QED
  BY <1>1, <1>2, <1>3, PartsNext

\* A tier whose last word is no stop goes on announcing.
LEMMA LastWordKeeps ==
    ASSUME NEW t \in Tiers, NEW e \in Event, e # "stopped", LastWord(tiers'[t], e)
    PROVE  KeepsAnnouncing(t)'
  BY DEF LastWord, KeepsAnnouncing

LEMMA RecheckStep ==
    ASSUME IInv, NEW d \in BOOLEAN, Recheck(d)
    PROVE  /\ IInv'
           /\ \A t \in Tiers : Owes(t) => Owes(t)'
           /\ \A t \in Live : KeepsAnnouncing(t) => KeepsAnnouncing(t)'
<1>1. TiersOK /\ RestOK
  BY Parts
<1>2. RestOK'
  BY <1>1 DEF RestOK, Recheck
<1>3. /\ tiers' \in [Tiers -> TierRecord]
      /\ \A t \in Tiers : TierOK(tiers'[t]) /\ Extends(tiers[t], tiers'[t])
  BY <1>1, CompletedFacts DEF Recheck
<1>4. ASSUME NEW t \in Live, KeepsAnnouncing(t) PROVE KeepsAnnouncing(t)'
  <2>1. CASE tiers' = tiers
    BY <1>4, <2>1 DEF Recheck, KeepsAnnouncing, Of
  <2>2. CASE tiers' # tiers
    <3>1. t \in Tiers /\ tiers[t].trackers # << >>
      BY DEF Live
    <3>2. LastWord(tiers'[t], "completed")
      BY <1>1, <2>2, <3>1, CompletedFacts DEF Recheck
    <3> QED
      BY <3>1, <3>2, LastWordKeeps DEF Event
  <2> QED
    BY <2>1, <2>2
<1> QED
  BY <1>2, <1>3, <1>4, AddStep DEF Recheck

LEMMA AddAnnounceStep ==
    ASSUME IInv, RestOK', NEW e \in Event,
           announces' = announces, scrapes' = scrapes,
           tiers' = AddAnnounce(tiers, e)
    PROVE  /\ IInv'
           /\ \A t \in Tiers : Owes(t) => Owes(t)'
           /\ e # "stopped" => \A t \in Live : KeepsAnnouncing(t)'
<1>1. TiersOK
  BY Parts
<1>2. /\ tiers' \in [Tiers -> TierRecord]
      /\ \A t \in Tiers :
            /\ TierOK(tiers'[t]) /\ Extends(tiers[t], tiers'[t])
            /\ tiers[t].trackers = << >> \/ LastWord(tiers'[t], e)
  BY <1>1, AddAnnounceFacts DEF TiersOK
<1>3. ASSUME NEW t \in Live, e # "stopped" PROVE KeepsAnnouncing(t)'
  BY <1>2, <1>3, LastWordKeeps DEF Live
<1> QED
  BY <1>2, <1>3, AddStep

LEMMA StartStep ==
    ASSUME IInv, NEW d \in BOOLEAN, Start(d)
    PROVE  IInv' /\ \A t \in Tiers : Owes(t) => Owes(t)'
<1>1. TiersOK /\ RestOK
  BY Parts
<1>2. RestOK'
  BY <1>1 DEF RestOK, Start
<1>3. "started" \in Event
  BY DEF Event
<1> DEFINE c == Completed(d)
<1>4. /\ c \in [Tiers -> TierRecord]
      /\ \A t \in Tiers : TierOK(c[t]) /\ Extends(tiers[t], c[t])
  BY <1>1, CompletedFacts
<1>5. tiers' = AddAnnounce(c, "started") /\ announces' = announces /\ scrapes' = scrapes
  BY DEF Start
<1> HIDE DEF c
<1>6. /\ tiers' \in [Tiers -> TierRecord]
      /\ \A t \in Tiers : TierOK(tiers'[t]) /\ Extends(c[t], tiers'[t])
  BY <1>3, <1>4, <1>5, AddAnnounceFacts
<1>7. \A t \in Tiers : Extends(tiers[t], tiers'[t])
  BY <1>4, <1>6 DEF Extends
<1> QED
  BY <1>2, <1>5, <1>6, <1>7, AddStep

LEMMA StopStep ==
    ASSUME IInv, Stop
    PROVE  IInv' /\ \A t \in Tiers : Owes(t) => Owes(t)'
<1>1. RestOK' /\ "stopped" \in Event
  BY Parts DEF RestOK, Stop, Event
<1> QED
  BY <1>1, AddAnnounceStep DEF Stop

LEMMA ManualAnnounceStep ==
    ASSUME IInv, ManualAnnounce
    PROVE  IInv' /\ (\A t \in Tiers : Owes(t) => Owes(t)') /\ \A t \in Live : KeepsAnnouncing(t)'
<1>1. RestOK' /\ "none" \in Event
  BY Parts DEF RestOK, ManualAnnounce, Event
<1> QED
  BY <1>1, AddAnnounceStep DEF ManualAnnounce

LEMMA ChangeMyPortStep ==
    ASSUME IInv, ChangeMyPort
    PROVE  IInv' /\ (\A t \in Tiers : Owes(t) => Owes(t)') /\ \A t \in Live : KeepsAnnouncing(t)'
<1>1. RestOK' /\ "started" \in Event
  BY Parts DEF RestOK, ChangeMyPort, Event
<1> QED
  BY <1>1, AddAnnounceStep DEF ChangeMyPort

LEMMA SameTiersStep ==
    ASSUME IInv, Download \/ UNCHANGED vars
    PROVE  IInv' /\ \A t \in Tiers : (Owes(t) <=> Owes(t)') /\ (KeepsAnnouncing(t) <=> KeepsAnnouncing(t)')
<1>1. UNCHANGED <<tiers, announces, scrapes>>
  BY DEF Download, vars
<1>2. RestOK'
  BY Parts DEF RestOK, Download, vars
<1>3. TiersOK' /\ FlagsAnswered'
  BY <1>1, Parts DEF TiersOK, TierOK, FlagsAnswered, Live, Of, Asks
<1>4. \A t \in Tiers : (Owes(t) <=> Owes(t)') /\ (KeepsAnnouncing(t) <=> KeepsAnnouncing(t)')
  BY <1>1 DEF Owes, KeepsAnnouncing, Of
<1> QED
  BY <1>2, <1>3, <1>4, PartsNext

LEMMA ResetStep ==
    ASSUME IInv, NEW l \in Lists, Reset(l)
    PROVE  IInv'
<1>1. TiersOK /\ RestOK
  BY Parts
<1>2. RestOK'
  BY <1>1, AnnouncerAssumption DEF RestOK, Reset
<1>3. ASSUME NEW t \in Tiers
      PROVE  TierOK(tiers'[t]) /\ ~tiers'[t].isAnnouncing /\ ~tiers'[t].isScraping
  <2>1. l[t] \in Seq(Trackers)
    BY AnnouncerAssumption
  <2>2. TierOK(Inherits(l[t])) /\ ~Inherits(l[t]).isAnnouncing /\ ~Inherits(l[t]).isScraping
    BY <1>1, <2>1, InheritsFacts DEF TiersOK
  <2>3. tiers'[t] = Kickstart(Inherits(l[t]))
    BY DEF Reset
  <2> QED
    BY <2>2, <2>3, KickstartFacts
<1>4. tiers' \in [Tiers -> TierRecord]
  <2>1. \A t \in Tiers : tiers'[t] \in TierRecord
    BY <1>3 DEF TierOK
  <2> QED
    BY <2>1 DEF Reset
<1>5. TiersOK'
  BY <1>3, <1>4 DEF TiersOK, TierOK
<1>6. FlagsAnswered'
  BY <1>3 DEF FlagsAnswered, Live
<1> QED
  BY <1>2, <1>5, <1>6, PartsNext

-----------------------------------------------------------------------------

\* What an upkeep that scrapes ts and announces as does to tier t.
Upkept(t, ts, as) ==
    /\ TierOK(tiers'[t])
    /\ tiers'[t].trackers = tiers[t].trackers
    /\ tiers'[t].current = tiers[t].current
    /\ tiers'[t].announceAt = tiers[t].announceAt
    /\ tiers'[t].isAnnouncing <=> tiers[t].isAnnouncing \/ t \in as
    /\ tiers'[t].isScraping <=> tiers[t].isScraping \/ t \in ts
    /\ t \in as => tiers'[t].events = Tail(tiers[t].events)
    /\ t \notin as => tiers'[t].events = tiers[t].events

LEMMA UpkeepTier ==
    ASSUME IInv, NEW ts \in SUBSET Live, NEW as \in SUBSET Live, Upkeep(ts, as)
    PROVE  \A t \in Tiers : Upkept(t, ts, as)
<1> SUFFICES ASSUME NEW t \in Tiers PROVE Upkept(t, ts, as)
  OBVIOUS
<1>1. TierOK(tiers[t]) /\ tiers[t] \in TierRecord /\ tiers[t].events \in Seq(Event)
  BY Parts DEF TiersOK, TierOK, TierRecord
<1>2. tiers'[t] = [tiers[t] EXCEPT !.events = IF t \in as THEN Tail(@) ELSE @,
                                   !.isAnnouncing = @ \/ t \in as,
                                   !.isScraping = @ \/ t \in ts]
  BY DEF Upkeep
<1>3. t \in as => tiers[t].events # << >>
  BY DEF Upkeep, NeedsToAnnounce
<1>4. t \in as => Tail(tiers[t].events) \in Seq(Event) /\ Ordered(Tail(tiers[t].events))
  BY <1>1, <1>3, TailFacts DEF TierOK
<1>5. tiers'[t].events = IF t \in as THEN Tail(tiers[t].events) ELSE tiers[t].events
  BY <1>1, <1>2 DEF TierRecord
<1>6. tiers'[t].events \in Seq(Event) /\ Ordered(tiers'[t].events)
  BY <1>1, <1>4, <1>5 DEF TierOK
<1>7. /\ tiers'[t] \in TierRecord
      /\ tiers'[t].trackers = tiers[t].trackers
      /\ tiers'[t].current = tiers[t].current
      /\ tiers'[t].announceAt = tiers[t].announceAt
      /\ tiers'[t].isAnnouncing <=> tiers[t].isAnnouncing \/ t \in as
      /\ tiers'[t].isScraping <=> tiers[t].isScraping \/ t \in ts
  BY <1>1, <1>2, <1>5, <1>6 DEF TierRecord
<1> QED
  BY <1>1, <1>5, <1>6, <1>7 DEF Upkept, TierOK

LEMMA UpkeepScrapes ==
    ASSUME IInv, NEW ts, NEW as, Upkeep(ts, as), NEW k \in Trackers
    PROVE  /\ scrapes[k] \in Nat
           /\ scrapes'[k] \in 0..MaxScrapes
           /\ scrapes[k] > 0 => scrapes'[k] > 0
           /\ (\E t \in ts : Asks(tiers[t], k)) => scrapes'[k] > 0
<1> DEFINE asked == \E t \in ts : Asks(tiers[t], k)
<1>1. scrapes[k] \in 0..MaxScrapes /\ MaxScrapes \in Nat
  BY Parts, AnnouncerAssumption DEF RestOK
<1>2. asked => scrapes[k] < MaxScrapes
  BY DEF Upkeep
<1>3. scrapes'[k] = IF asked THEN scrapes[k] + 1 ELSE scrapes[k]
  BY DEF Upkeep
<1> HIDE DEF asked
<1>4. /\ scrapes[k] \in Nat
      /\ scrapes'[k] \in 0..MaxScrapes
      /\ scrapes[k] > 0 => scrapes'[k] > 0
      /\ asked => scrapes'[k] > 0
  BY <1>1, <1>2, <1>3
<1> QED
  BY <1>4 DEF asked

LEMMA UpkeepStep ==
    ASSUME IInv, NEW ts \in SUBSET Live, NEW as \in SUBSET Live, Upkeep(ts, as)
    PROVE  /\ IInv'
           /\ \A t \in Tiers : Owes(t) => Owes(t)'
           /\ \A t \in Live : KeepsAnnouncing(t) => KeepsAnnouncing(t)'
<1>0. \A t \in Tiers : Upkept(t, ts, as)
  BY UpkeepTier
<1>1. TiersOK /\ RestOK /\ FlagsAnswered
  BY Parts
<1>2. \A t \in Tiers : tiers[t] \in TierRecord /\ tiers[t].events \in Seq(Event)
  BY <1>1 DEF TiersOK, TierRecord
<1>3. \A t \in Live : t \in Tiers
  BY DEF Live
<1>4. PICK n \in 1..MaxQueue : announces' = announces \cup {Request(t, n) : t \in as}
  BY DEF Upkeep
<1>5. \A t \in as : /\ Request(t, n) \in announces'
                     /\ Request(t, n).tier = t
                     /\ Request(t, n).event = Head(tiers[t].events)
                     /\ Request(t, n).running \in BOOLEAN
  BY <1>1, <1>4 DEF Request, RestOK
<1>6. announces \subseteq announces'
  BY <1>4
<1>7. \A t \in as : tiers[t].events # << >> /\ Head(tiers[t].events) \in Event
  BY <1>2, <1>3, TailFacts DEF Upkeep, NeedsToAnnounce
<1>8. RestOK'
  <2>1. announces' \subseteq [tier : Tiers, event : Event, running : BOOLEAN, n : 1..MaxQueue]
    <3> DEFINE R == [tier : Tiers, event : Event, running : BOOLEAN, n : 1..MaxQueue]
    <3>1. announces \subseteq R /\ running \in BOOLEAN
      BY <1>1 DEF RestOK
    <3>2. \A t \in as : Request(t, n) \in R
      BY <1>3, <1>7, <3>1 DEF Request
    <3> HIDE DEF R
    <3>3. announces' \subseteq R
      BY <1>4, <3>1, <3>2
    <3> QED
      BY <3>3 DEF R
  <2>2. scrapes' \in [Trackers -> 0..MaxScrapes]
    <3>1. \A k \in Trackers : scrapes'[k] \in 0..MaxScrapes
      BY UpkeepScrapes
    <3> QED
      BY <3>1 DEF Upkeep
  <2> QED
    BY <1>1, <2>1, <2>2 DEF RestOK, Upkeep
<1>9. TiersOK'
  <2>1. \A t \in Tiers : TierOK(tiers'[t]) /\ tiers'[t] \in TierRecord
    BY <1>0 DEF TierOK, Upkept
  <2>2. tiers' \in [Tiers -> TierRecord]
    BY <2>1 DEF Upkeep
  <2> QED
    BY <2>1, <2>2 DEF TiersOK, TierOK
<1>10. FlagsAnswered'
  <2> SUFFICES ASSUME NEW t \in Tiers, tiers'[t].trackers # << >>
               PROVE  /\ tiers'[t].isAnnouncing => \E a \in announces' : a.tier = t
                      /\ tiers'[t].isScraping =>
                            \E k \in Trackers : Asks(tiers'[t], k) /\ scrapes'[k] > 0
    BY DEF FlagsAnswered, Live, Of, Asks
  <2>1. t \in Live
    BY <1>0 DEF Live, Upkept
  <2>2. ASSUME tiers'[t].isAnnouncing PROVE \E a \in announces' : a.tier = t
    <3>1. CASE t \in as
      BY <1>5, <3>1
    <3>2. CASE t \notin as
      <4>1. tiers[t].isAnnouncing
        BY <2>2, <3>2, <1>0 DEF Upkept
      <4>2. Of(t) # {}
        BY <1>1, <2>1, <4>1 DEF FlagsAnswered
      <4> QED
        BY <1>6, <4>2 DEF Of
    <3> QED
      BY <3>1, <3>2
  <2>3. ASSUME tiers'[t].isScraping
        PROVE  \E k \in Trackers : Asks(tiers'[t], k) /\ scrapes'[k] > 0
    <3>1. \A k : Asks(tiers'[t], k) <=> Asks(tiers[t], k)
      BY <1>0 DEF Asks, Upkept
    <3>2. CASE t \in ts
      <4>1. PICK k \in Trackers : Asks(tiers[t], k)
        BY <3>2, AnnouncerAssumption DEF Upkeep, NeedsToScrape
      <4>2. scrapes'[k] > 0
        BY <3>2, <4>1, UpkeepScrapes
      <4> QED
        BY <3>1, <4>1, <4>2
    <3>3. CASE t \notin ts
      <4>1. tiers[t].isScraping
        BY <2>3, <3>3, <1>0 DEF Upkept
      <4>2. PICK k \in Trackers : Asks(tiers[t], k) /\ scrapes[k] > 0
        BY <1>1, <2>1, <4>1 DEF FlagsAnswered
      <4>3. scrapes'[k] > 0
        BY <4>2, UpkeepScrapes
      <4> QED
        BY <3>1, <4>2, <4>3
    <3> QED
      BY <3>2, <3>3
  <2> QED
    BY <2>2, <2>3
<1>11. ASSUME NEW t \in Tiers, Owes(t) PROVE Owes(t)'
  <2>1. CASE \E a \in announces : a.tier = t /\ a.event = "completed"
    BY <1>6, <2>1 DEF Owes, Of
  <2>2. CASE \E i \in DOMAIN tiers[t].events : tiers[t].events[i] = "completed"
    <3>1. CASE t \notin as
      BY <2>2, <3>1, <1>0 DEF Owes, Upkept
    <3>2. CASE t \in as
      <4> DEFINE q == tiers[t].events
      <4>1. /\ Len(Tail(q)) = Len(q) - 1 /\ Len(q) \in Nat
            /\ \A i \in 1 .. Len(Tail(q)) : Tail(q)[i] = q[i + 1]
            /\ Tail(q) \in Seq(Event)
            /\ Head(q) = q[1]
        <5>1. q \in Seq(Event) /\ q # << >>
          BY <1>2, <1>7, <3>2
        <5> HIDE DEF q
        <5> QED
          BY <5>1, TailFacts
      <4>2. PICK i \in 1 .. Len(q) : q[i] = "completed"
        BY <1>2, <2>2
      <4>3. CASE i = 1
        <5>1. Request(t, n) \in Of(t)' /\ Request(t, n).event = "completed"
          BY <1>5, <3>2, <4>1, <4>2, <4>3 DEF Of
        <5> QED
          BY <5>1 DEF Owes
      <4>4. CASE i # 1
        <5>1. i - 1 \in DOMAIN Tail(q) /\ Tail(q)[i - 1] = "completed"
          BY <4>1, <4>2, <4>4
        <5>2. tiers'[t].events = Tail(q)
          BY <3>2, <1>0 DEF Upkept
        <5> QED
          BY <5>1, <5>2 DEF Owes
      <4> QED
        BY <4>3, <4>4
    <3> QED
      BY <3>1, <3>2
  <2> QED
    BY <1>11, <2>1, <2>2 DEF Owes, Of
<1>12. ASSUME NEW t \in Live, KeepsAnnouncing(t) PROVE KeepsAnnouncing(t)'
  <2>1. t \in Tiers
    BY <1>3
  <2>2. CASE t \notin as
    BY <1>6, <1>12, <2>1, <2>2, <1>0 DEF KeepsAnnouncing, Of, Upkept
  <2>3. CASE t \in as
    <3> DEFINE q == tiers[t].events
    <3>1. /\ Len(Tail(q)) = Len(q) - 1 /\ Len(q) \in Nat \ {0}
          /\ \A i \in 1 .. Len(Tail(q)) : Tail(q)[i] = q[i + 1]
          /\ Tail(q) \in Seq(Event)
          /\ Head(q) = q[1]
      <4>1. q \in Seq(Event) /\ q # << >>
        BY <1>2, <1>7, <2>1, <2>3
      <4> HIDE DEF q
      <4>2. Len(q) \in Nat \ {0}
        BY <4>1
      <4> QED
        BY <4>1, <4>2, TailFacts
    <3>2. tiers[t].announceAt /\ q[Len(q)] # "stopped"
      BY <1>7, <1>12, <2>3 DEF KeepsAnnouncing
    <3>3. tiers'[t].events = Tail(q) /\ tiers'[t].announceAt
      BY <2>1, <2>3, <3>2, <1>0 DEF Upkept
    <3>4. CASE Tail(q) = << >>
      <4>1. Head(q) # "stopped"
        BY <3>1, <3>2, <3>4
      <4> QED
        BY <1>5, <2>3, <3>3, <3>4, <4>1 DEF KeepsAnnouncing, Of
    <3>5. CASE Tail(q) # << >>
      <4>1. Tail(q)[Len(Tail(q))] = q[Len(q)]
        BY <3>1, <3>5
      <4> QED
        BY <3>2, <3>3, <3>5, <4>1 DEF KeepsAnnouncing
    <3> QED
      BY <3>4, <3>5
  <2> QED
    BY <2>2, <2>3
<1> QED
  BY <1>8, <1>9, <1>10, <1>11, <1>12, PartsNext

-----------------------------------------------------------------------------

\* An answer to a changes its tier to x, which waits for that answer no longer.
LEMMA AnswerStep ==
    ASSUME IInv, NEW a \in announces, NEW x, TierOK(x),
           announces' = announces \ {a},
           tiers' = [tiers EXCEPT ![a.tier] = x],
           x.trackers = tiers[a.tier].trackers,
           ~x.isAnnouncing,
           x.isScraping => tiers[a.tier].isScraping /\ x.current = tiers[a.tier].current,
           UNCHANGED <<running, done, downloaded, scrapes, resets>>
    PROVE  IInv'
<1>1. TiersOK /\ RestOK /\ FlagsAnswered
  BY Parts
<1>2. a.tier \in Tiers
  BY <1>1 DEF RestOK
<1>3. RestOK'
  BY <1>1 DEF RestOK
<1>4. \A t \in Tiers : tiers'[t] = IF t = a.tier THEN x ELSE tiers[t]
  BY <1>1, <1>2 DEF TiersOK
<1>5. TiersOK'
  <2>1. \A t \in Tiers : TierOK(tiers'[t])
    BY <1>1, <1>4 DEF TiersOK
  <2>2. tiers' \in [Tiers -> TierRecord]
    BY <1>1 DEF TiersOK, TierOK
  <2> QED
    BY <2>1, <2>2 DEF TiersOK, TierOK
<1>6. FlagsAnswered'
  <2> SUFFICES ASSUME NEW t \in Tiers, tiers'[t].trackers # << >>
               PROVE  /\ tiers'[t].isAnnouncing => \E b \in announces' : b.tier = t
                      /\ tiers'[t].isScraping =>
                            \E k \in Trackers : Asks(tiers'[t], k) /\ scrapes'[k] > 0
    BY DEF FlagsAnswered, Live, Of, Asks
  <2>1. t \in Live
    BY <1>4 DEF Live
  <2>2. CASE t = a.tier
    <3>1. tiers'[t] = x /\ ~tiers'[t].isAnnouncing
      BY <1>4, <2>2
    <3>2. ASSUME x.isScraping
          PROVE  \E k \in Trackers : Asks(x, k) /\ scrapes[k] > 0
      <4>1. PICK k \in Trackers : Asks(tiers[t], k) /\ scrapes[k] > 0
        BY <1>1, <2>1, <2>2, <3>2 DEF FlagsAnswered
      <4>2. Asks(x, k)
        BY <2>2, <3>2, <4>1 DEF Asks
      <4> QED
        BY <4>1, <4>2
    <3> QED
      BY <3>1, <3>2
  <2>3. CASE t # a.tier
    BY <1>1, <1>4, <2>1, <2>3 DEF FlagsAnswered, Of
  <2> QED
    BY <2>2, <2>3
<1> QED
  BY <1>3, <1>5, <1>6, PartsNext

\* What is left of the announces, and of the other tiers, after that.
LEMMA AnswerLeaves ==
    ASSUME IInv, NEW a \in announces, NEW x,
           announces' = announces \ {a},
           tiers' = [tiers EXCEPT ![a.tier] = x]
    PROVE  /\ a.tier \in Tiers /\ a.event \in Event /\ a.running \in BOOLEAN
           /\ TierOK(tiers[a.tier])
           /\ tiers'[a.tier] = x
           /\ \A t \in Tiers : t # a.tier =>
                 /\ Owes(t) => Owes(t)'
                 /\ KeepsAnnouncing(t) => KeepsAnnouncing(t)'
           /\ \A e \in Event : (\E b \in Of(a.tier) : b.event = e) /\ a.event # e
                 => \E b \in Of(a.tier)' : b.event = e
<1>1. TiersOK /\ RestOK
  BY Parts
<1>2. a.tier \in Tiers /\ a.event \in Event /\ a.running \in BOOLEAN
  BY <1>1 DEF RestOK
<1>3. TierOK(tiers[a.tier]) /\ tiers'[a.tier] = x
  BY <1>1, <1>2 DEF TiersOK
<1>4. ASSUME NEW t \in Tiers, t # a.tier
      PROVE  tiers'[t] = tiers[t] /\ Of(t)' = Of(t)
  BY <1>1, <1>4 DEF TiersOK, Of
<1>5. \A t \in Tiers : t # a.tier =>
          /\ Owes(t) => Owes(t)'
          /\ KeepsAnnouncing(t) => KeepsAnnouncing(t)'
  BY <1>4 DEF Owes, KeepsAnnouncing
<1>6. \A e \in Event : (\E b \in Of(a.tier) : b.event = e) /\ a.event # e
          => \E b \in Of(a.tier)' : b.event = e
  BY DEF Of
<1> QED
  BY <1>2, <1>3, <1>5, <1>6

LEMMA AnnounceAckedStep ==
    ASSUME IInv, NEW a \in announces, AnnounceAcked(a)
    PROVE  /\ IInv'
           /\ \A t \in Tiers : Owes(t) => Owes(t)' \/ (t = a.tier /\ a.event = "completed")
           /\ \A t \in Live : KeepsAnnouncing(t) => KeepsAnnouncing(t)'
<1> DEFINE w == [tiers[a.tier] EXCEPT !.isAnnouncing = FALSE, !.isRunning = a.running]
           more == a.event # "stopped" /\ tiers[a.tier].events = << >>
<1>1. PICK again \in BOOLEAN :
          LET y == IF again THEN ScheduleScrape(w) ELSE w
          IN  tiers' = [tiers EXCEPT ![a.tier] =
                           IF a.event # "stopped" /\ y.events = << >> THEN Push(y, "none") ELSE y]
  BY DEF AnnounceAcked
<1> DEFINE y == IF again THEN ScheduleScrape(w) ELSE w
           x == IF a.event # "stopped" /\ y.events = << >> THEN Push(y, "none") ELSE y
<1>2. tiers' = [tiers EXCEPT ![a.tier] = x] /\ announces' = announces \ {a}
  BY <1>1 DEF AnnounceAcked
<1> HIDE DEF x
<1>3. /\ a.tier \in Tiers /\ a.event \in Event /\ a.running \in BOOLEAN
      /\ TierOK(tiers[a.tier])
      /\ tiers'[a.tier] = x
      /\ \A t \in Tiers : t # a.tier =>
            /\ Owes(t) => Owes(t)'
            /\ KeepsAnnouncing(t) => KeepsAnnouncing(t)'
      /\ \A e \in Event : (\E b \in Of(a.tier) : b.event = e) /\ a.event # e
            => \E b \in Of(a.tier)' : b.event = e
  BY <1>2, AnswerLeaves
<1> DEFINE o == tiers[a.tier]
<1>4. /\ TierOK(w)
      /\ w.trackers = o.trackers /\ w.current = o.current /\ w.events = o.events
      /\ w.announceAt = o.announceAt /\ w.isScraping = o.isScraping /\ ~w.isAnnouncing
  BY <1>3 DEF TierOK, TierRecord
<1> HIDE DEF w
<1>5. /\ TierOK(y)
      /\ y.trackers = o.trackers /\ y.current = o.current /\ y.events = o.events
      /\ y.announceAt = o.announceAt /\ y.isScraping = o.isScraping /\ ~y.isAnnouncing
  BY <1>4, ScheduleScrapeFacts
<1> HIDE DEF y
<1>6. "none" \in Event
  BY DEF Event
<1>7. /\ TierOK(x)
      /\ x.trackers = o.trackers /\ x.current = o.current
      /\ x.isScraping = o.isScraping /\ ~x.isAnnouncing
      /\ o.events # << >> => x.events = o.events /\ x.announceAt = o.announceAt
      /\ o.events = << >> /\ a.event # "stopped" => LastWord(x, "none")
      /\ o.events = << >> /\ a.event = "stopped" => x.events = << >>
  BY <1>5, <1>6, PushFacts, PushExtends DEF x
<1>8. IInv'
  BY <1>2, <1>3, <1>7, AnswerStep DEF AnnounceAcked
<1>9. ASSUME NEW t \in Tiers, Owes(t), t = a.tier, a.event # "completed" PROVE Owes(t)'
  <2>1. CASE \E b \in Of(t) : b.event = "completed"
    BY <1>3, <1>9, <2>1 DEF Owes, Event
  <2>2. CASE \E i \in DOMAIN o.events : o.events[i] = "completed"
    <3>1. o.events # << >>
      BY <2>2
    <3>2. x.events = o.events
      BY <3>1, <1>7
    <3> QED
      BY <2>2, <3>2, <1>3, <1>9 DEF Owes
  <2> QED
    BY <1>9, <2>1, <2>2 DEF Owes
<1>10. ASSUME NEW t \in Live, KeepsAnnouncing(t), t = a.tier PROVE KeepsAnnouncing(t)'
  <2>1. CASE o.events # << >>
    BY <1>3, <1>7, <1>10, <2>1 DEF KeepsAnnouncing
  <2>2. CASE o.events = << >> /\ a.event # "stopped"
    BY <1>3, <1>6, <1>7, <1>10, <2>2, LastWordKeeps
  <2>3. CASE o.events = << >> /\ a.event = "stopped"
    <3>1. PICK b \in Of(t) : b.event # "stopped"
      BY <1>10, <2>3 DEF KeepsAnnouncing
    <3>2. b \in Of(t)'
      BY <1>2, <2>3, <3>1 DEF Of
    <3> QED
      BY <1>3, <1>7, <1>10, <2>3, <3>1, <3>2 DEF KeepsAnnouncing
  <2> QED
    BY <2>1, <2>2, <2>3
<1>11. \A t \in Live : t \in Tiers
  BY DEF Live
<1> QED
  BY <1>3, <1>8, <1>9, <1>10, <1>11

LEMMA AnnounceFailedStep ==
    ASSUME IInv, NEW a \in announces, AnnounceFailed(a)
    PROVE  /\ IInv'
           /\ \A t \in Tiers : Owes(t) => Owes(t)'
           /\ \A t \in Live : KeepsAnnouncing(t)
                 => KeepsAnnouncing(t)' \/ (t = a.tier /\ a.event = "stopped")
<1> DEFINE o == tiers[a.tier]
           u == UseNextTracker(o)
           x == Push(u, a.event)
<1>1. tiers' = [tiers EXCEPT ![a.tier] = x] /\ announces' = announces \ {a}
  BY DEF AnnounceFailed
<1>2. /\ a.tier \in Tiers /\ a.event \in Event
      /\ TierOK(o)
      /\ tiers'[a.tier] = x
      /\ \A t \in Tiers : t # a.tier =>
            /\ Owes(t) => Owes(t)'
            /\ KeepsAnnouncing(t) => KeepsAnnouncing(t)'
      /\ \A e \in Event : (\E b \in Of(a.tier) : b.event = e) /\ a.event # e
            => \E b \in Of(a.tier)' : b.event = e
  <2> HIDE DEF x
  <2> QED
    BY <1>1, AnswerLeaves
<1>3. /\ TierOK(u) /\ u.events = o.events /\ u.trackers = o.trackers
      /\ ~u.isAnnouncing /\ ~u.isScraping
  BY <1>2, UseNextTrackerFacts
<1> HIDE DEF u
<1>4. /\ TierOK(x) /\ x.trackers = o.trackers /\ ~x.isAnnouncing /\ ~x.isScraping
      /\ HasCompleted(u) => HasCompleted(x)
      /\ LastWord(x, a.event)
  BY <1>2, <1>3, PushFacts, PushExtends DEF Extends
<1> HIDE DEF x
<1>5. IInv'
  BY <1>1, <1>4, AnswerStep DEF AnnounceFailed
<1>6. ASSUME NEW t \in Tiers, Owes(t), t = a.tier PROVE Owes(t)'
  <2>1. CASE a.event = "completed"
    <3>1. x.events # << >> /\ x.events[Len(x.events)] = "completed" /\ x.events \in Seq(Event)
      BY <1>4, <2>1 DEF LastWord, TierOK, TierRecord
    <3>2. Len(x.events) \in DOMAIN x.events
      BY <3>1
    <3> QED
      BY <1>2, <1>6, <3>1, <3>2 DEF Owes
  <2>2. CASE a.event # "completed" /\ \E b \in Of(t) : b.event = "completed"
    BY <1>2, <1>6, <2>2 DEF Owes, Event
  <2>3. CASE \E i \in DOMAIN o.events : o.events[i] = "completed"
    BY <1>2, <1>3, <1>4, <1>6, <2>3 DEF Owes, HasCompleted
  <2> QED
    BY <1>6, <2>1, <2>2, <2>3 DEF Owes
<1>7. ASSUME NEW t \in Tiers, t = a.tier, a.event # "stopped" PROVE KeepsAnnouncing(t)'
  BY <1>2, <1>4, <1>7, LastWordKeeps
<1>8. \A t \in Live : t \in Tiers
  BY DEF Live
<1> QED
  BY <1>2, <1>5, <1>6, <1>7, <1>8

LEMMA AnnounceUnregisteredStep ==
    ASSUME IInv, NEW a \in announces, AnnounceUnregistered(a)
    PROVE  /\ IInv'
           /\ \A t \in Tiers : Owes(t) => Owes(t)' \/ (t = a.tier /\ a.event = "completed")
           /\ \A t \in Live : KeepsAnnouncing(t) => KeepsAnnouncing(t)' \/ t = a.tier
<1> DEFINE o == tiers[a.tier]
           x == UseNextTracker(o)
<1>1. tiers' = [tiers EXCEPT ![a.tier] = x] /\ announces' = announces \ {a}
  BY DEF AnnounceUnregistered
<1>2. /\ a.tier \in Tiers
      /\ TierOK(o)
      /\ tiers'[a.tier] = x
      /\ \A t \in Tiers : t # a.tier =>
            /\ Owes(t) => Owes(t)'
            /\ KeepsAnnouncing(t) => KeepsAnnouncing(t)'
      /\ \A e \in Event : (\E b \in Of(a.tier) : b.event = e) /\ a.event # e
            => \E b \in Of(a.tier)' : b.event = e
  <2> HIDE DEF x
  <2> QED
    BY <1>1, AnswerLeaves
<1>3. /\ TierOK(x) /\ x.events = o.events /\ x.trackers = o.trackers
      /\ ~x.isAnnouncing /\ ~x.isScraping
  BY <1>2, UseNextTrackerFacts
<1> HIDE DEF x
<1>4. IInv'
  BY <1>1, <1>3, AnswerStep DEF AnnounceUnregistered
<1>5. ASSUME NEW t \in Tiers, Owes(t), t = a.tier, a.event # "completed" PROVE Owes(t)'
  <2>1. CASE \E b \in Of(t) : b.event = "completed"
    BY <1>2, <1>5, <2>1 DEF Owes, Event
  <2>2. CASE \E i \in DOMAIN o.events : o.events[i] = "completed"
    BY <1>2, <1>3, <1>5, <2>2 DEF Owes
  <2> QED
    BY <1>5, <2>1, <2>2 DEF Owes
<1>6. \A t \in Live : t \in Tiers
  BY DEF Live
<1> QED
  BY <1>2, <1>4, <1>5, <1>6

LEMMA ScrapeDoneStep ==
    ASSUME IInv, NEW k \in Trackers, NEW ok \in BOOLEAN, ScrapeDone(k, ok)
    PROVE  /\ IInv'
           /\ \A t \in Tiers : Owes(t) => Owes(t)'
           /\ \A t \in Live : KeepsAnnouncing(t) => KeepsAnnouncing(t)'
<1>1. TiersOK /\ RestOK /\ FlagsAnswered
  BY Parts
<1>2. ASSUME NEW t \in Tiers
      PROVE  /\ TierOK(tiers'[t])
             /\ tiers'[t].events = tiers[t].events
             /\ tiers'[t].announceAt = tiers[t].announceAt
             /\ tiers'[t].trackers = tiers[t].trackers
             /\ tiers'[t].isAnnouncing => tiers[t].isAnnouncing
             /\ tiers'[t].isScraping => tiers'[t] = tiers[t] /\ ~Asks(tiers[t], k)
  <2> DEFINE calm == [tiers[t] EXCEPT !.isScraping = FALSE]
             next == UseNextTracker(tiers[t])
  <2>1. TierOK(tiers[t])
    BY <1>1 DEF TiersOK
  <2>2. tiers'[t] = IF ~Asks(tiers[t], k) THEN tiers[t]
                    ELSE IF ok THEN ScheduleScrape(calm) ELSE ScheduleScrape(next)
    BY DEF ScrapeDone
  <2>3. /\ TierOK(calm) /\ calm.events = tiers[t].events /\ calm.announceAt = tiers[t].announceAt
        /\ calm.trackers = tiers[t].trackers /\ calm.isAnnouncing = tiers[t].isAnnouncing
        /\ ~calm.isScraping
    BY <2>1 DEF TierOK, TierRecord
  <2>4. /\ TierOK(next) /\ next.events = tiers[t].events /\ next.announceAt = tiers[t].announceAt
        /\ next.trackers = tiers[t].trackers /\ ~next.isAnnouncing /\ ~next.isScraping
    BY <2>1, UseNextTrackerFacts
  <2> HIDE DEF calm, next
  <2>5. CASE ~Asks(tiers[t], k)
    BY <2>1, <2>2, <2>5
  <2>6. CASE Asks(tiers[t], k)
    BY <2>2, <2>3, <2>4, <2>6, ScheduleScrapeFacts
  <2> QED
    BY <2>5, <2>6
<1>3. announces' = announces
  BY DEF ScrapeDone
<1>4. RestOK'
  <2>1. scrapes[k] \in 0..MaxScrapes /\ scrapes[k] > 0 /\ MaxScrapes \in Nat
    BY <1>1, AnnouncerAssumption DEF RestOK, ScrapeDone
  <2>2. scrapes[k] - 1 \in 0..MaxScrapes
    BY <2>1
  <2>3. scrapes' \in [Trackers -> 0..MaxScrapes]
    BY <1>1, <2>2 DEF RestOK, ScrapeDone
  <2> QED
    BY <1>1, <2>3 DEF RestOK, ScrapeDone
<1>5. TiersOK'
  <2>1. \A t \in Tiers : tiers'[t] \in TierRecord
    BY <1>2 DEF TierOK
  <2>2. tiers' \in [Tiers -> TierRecord]
    BY <2>1 DEF ScrapeDone
  <2> QED
    BY <1>2, <2>2 DEF TiersOK, TierOK
<1>6. FlagsAnswered'
  <2> SUFFICES ASSUME NEW t \in Tiers, tiers'[t].trackers # << >>
               PROVE  /\ tiers'[t].isAnnouncing => \E b \in announces' : b.tier = t
                      /\ tiers'[t].isScraping =>
                            \E j \in Trackers : Asks(tiers'[t], j) /\ scrapes'[j] > 0
    BY DEF FlagsAnswered, Live, Of, Asks
  <2>1. t \in Live
    BY <1>2 DEF Live
  <2>2. tiers'[t].isAnnouncing => \E b \in announces' : b.tier = t
    BY <1>1, <1>2, <1>3, <2>1 DEF FlagsAnswered, Of
  <2>3. ASSUME tiers'[t].isScraping
        PROVE  \E j \in Trackers : Asks(tiers'[t], j) /\ scrapes'[j] > 0
    <3>1. tiers'[t] = tiers[t] /\ ~Asks(tiers[t], k)
      BY <1>2, <2>3
    <3>2. PICK j \in Trackers : Asks(tiers[t], j) /\ scrapes[j] > 0
      BY <1>1, <2>1, <2>3, <3>1 DEF FlagsAnswered
    <3>3. scrapes'[j] = scrapes[j]
      BY <1>1, <3>1, <3>2 DEF RestOK, ScrapeDone
    <3> QED
      BY <3>1, <3>2, <3>3
  <2> QED
    BY <2>2, <2>3
<1>7. \A t \in Tiers : (Owes(t) => Owes(t)') /\ (KeepsAnnouncing(t) => KeepsAnnouncing(t)')
  BY <1>2, <1>3 DEF Owes, KeepsAnnouncing, Of
<1> QED
  BY <1>4, <1>5, <1>6, <1>7, PartsNext DEF Live

-----------------------------------------------------------------------------
(* The theorems.                                                           *)

LEMMA InitIInv == Init => IInv
<1> SUFFICES ASSUME Init PROVE IInv
  OBVIOUS
<1>1. PICK l \in Lists : tiers = [t \in Tiers |-> NewTier(l[t])]
  BY DEF Init
<1>2. \A t \in Tiers : l[t] \in Seq(Trackers)
  BY AnnouncerAssumption
<1>3. \A t \in Tiers : TierOK(tiers[t]) /\ ~tiers[t].isAnnouncing /\ ~tiers[t].isScraping
  BY <1>1, <1>2, NewTierFacts
<1>4. TiersOK
  BY <1>1, <1>3 DEF TiersOK, TierOK
<1>5. RestOK
  <2>1. scrapes \in [Trackers -> 0..MaxScrapes] /\ resets \in 0..MaxResets
    BY AnnouncerAssumption DEF Init
  <2> QED
    BY <2>1 DEF Init, RestOK
<1>6. FlagsAnswered
  BY <1>3 DEF FlagsAnswered, Live
<1> QED
  BY <1>4, <1>5, <1>6, Parts

LEMMA NextIInv == IInv /\ [Next]_vars => IInv'
<1> SUFFICES ASSUME IInv, [Next]_vars PROVE IInv'
  OBVIOUS
<1>1. ASSUME NEW d \in BOOLEAN, Recheck(d) PROVE IInv'
  BY <1>1, RecheckStep
<1>2. ASSUME NEW d \in BOOLEAN, Start(d) PROVE IInv'
  BY <1>2, StartStep
<1>3. CASE Stop
  BY <1>3, StopStep
<1>4. CASE Download \/ UNCHANGED vars
  BY <1>4, SameTiersStep
<1>5. CASE ManualAnnounce
  BY <1>5, ManualAnnounceStep
<1>6. CASE ChangeMyPort
  BY <1>6, ChangeMyPortStep
<1>7. ASSUME NEW l \in Lists, Reset(l) PROVE IInv'
  BY <1>7, ResetStep
<1>8. CASE SomeUpkeep
  BY <1>8, UpkeepStep DEF SomeUpkeep
<1>9. ASSUME NEW a \in announces, AnnounceAcked(a) PROVE IInv'
  BY <1>9, AnnounceAckedStep
<1>10. ASSUME NEW a \in announces, AnnounceFailed(a) PROVE IInv'
  BY <1>10, AnnounceFailedStep
<1>11. ASSUME NEW a \in announces, AnnounceUnregistered(a) PROVE IInv'
  BY <1>11, AnnounceUnregisteredStep
<1>12. ASSUME NEW k \in Trackers, NEW ok \in BOOLEAN, ScrapeDone(k, ok) PROVE IInv'
  BY <1>12, ScrapeDoneStep
<1> QED
  BY <1>1, <1>2, <1>3, <1>4, <1>5, <1>6, <1>7, <1>8, <1>9, <1>10, <1>11, <1>12 DEF Next

\* The invariant is inductive: every action above keeps it.
THEOREM Invariance == Spec => []IInv
  BY InitIInv, NextIInv, PTL DEF Spec

\* Every variable keeps its type, and the current tracker of a tier is one of its
\* own, through use_next_tracker() and every edit of the announce list.
THEOREM TypeCorrect == Spec => []TypeOK
<1>1. IInv => TypeOK
  BY DEF IInv
<1> QED
  BY <1>1, Invariance, PTL

\* tier_announce_event_push() keeps the events of a tier in order for every
\* number of tiers, trackers, lists, retries and late answers.
THEOREM EventsOrdered == Spec => []QueueOrdered
<1>1. IInv => QueueOrdered
  BY DEF IInv
<1> QED
  BY <1>1, Invariance, PTL

\* No tier is left with isAnnouncing or isScraping up and no answer to come, which
\* would keep it from its trackers for ever.
THEOREM FlagsAreAnswered == Spec => []FlagsAnswered
<1>1. IInv => FlagsAnswered
  BY DEF IInv
<1> QED
  BY <1>1, Invariance, PTL

\* A completion leaves a tier only by an answer to it or by a new announce list.
THEOREM CompletionIsKept == Spec => CompletionKept
<1> DEFINE Paid(t) ==
               Owes(t) /\ ~Owes(t)' =>
                  \/ \E l \in Lists : Reset(l)
                  \/ \E a \in Of(t) : a.event = "completed" /\ (AnnounceAcked(a) \/ AnnounceUnregistered(a))
<1>1. ASSUME IInv, [Next]_vars, NEW t \in Tiers PROVE Paid(t)
  <2>1. ASSUME NEW d \in BOOLEAN, Recheck(d) PROVE Paid(t)
    BY <1>1, <2>1, RecheckStep
  <2>2. ASSUME NEW d \in BOOLEAN, Start(d) PROVE Paid(t)
    BY <1>1, <2>2, StartStep
  <2>3. CASE Stop
    BY <1>1, <2>3, StopStep
  <2>4. CASE Download \/ UNCHANGED vars
    BY <1>1, <2>4, SameTiersStep
  <2>5. CASE ManualAnnounce
    BY <1>1, <2>5, ManualAnnounceStep
  <2>6. CASE ChangeMyPort
    BY <1>1, <2>6, ChangeMyPortStep
  <2>7. ASSUME NEW l \in Lists, Reset(l) PROVE Paid(t)
    BY <2>7
  <2>8. CASE SomeUpkeep
    BY <1>1, <2>8, UpkeepStep DEF SomeUpkeep
  <2>9. ASSUME NEW a \in announces, AnnounceAcked(a) PROVE Paid(t)
    BY <1>1, <2>9, AnnounceAckedStep DEF Of
  <2>10. ASSUME NEW a \in announces, AnnounceFailed(a) PROVE Paid(t)
    BY <1>1, <2>10, AnnounceFailedStep
  <2>11. ASSUME NEW a \in announces, AnnounceUnregistered(a) PROVE Paid(t)
    BY <1>1, <2>11, AnnounceUnregisteredStep DEF Of
  <2>12. ASSUME NEW k \in Trackers, NEW ok \in BOOLEAN, ScrapeDone(k, ok) PROVE Paid(t)
    BY <1>1, <2>12, ScrapeDoneStep
  <2> HIDE DEF Paid
  <2> QED
    BY <1>1, <2>1, <2>2, <2>3, <2>4, <2>5, <2>6, <2>7, <2>8, <2>9, <2>10, <2>11, <2>12 DEF Next
<1>2. IInv /\ [Next]_vars => [\A t \in Tiers : Paid(t)]_vars
  BY <1>1
<1> QED
  BY <1>2, Invariance, PTL DEF Spec, CompletionKept

\* A running torrent falls silent at a tier in three ways only.
THEOREM SilencedOnly == Spec => SilencedOnlyBy
<1> DEFINE Excused(t) ==
               running /\ running' /\ KeepsAnnouncing(t) /\ ~KeepsAnnouncing(t)' =>
                  \/ \E l \in Lists : Reset(l)
                  \/ \E a \in Of(t) : AnnounceUnregistered(a)
                  \/ \E a \in Of(t) : a.event = "stopped" /\ AnnounceFailed(a)
<1>1. ASSUME IInv, [Next]_vars, NEW t \in Live PROVE Excused(t)
  <2>1. ASSUME NEW d \in BOOLEAN, Recheck(d) PROVE Excused(t)
    BY <1>1, <2>1, RecheckStep
  <2>2. ASSUME NEW d \in BOOLEAN, Start(d) PROVE Excused(t)
    BY <2>2 DEF Start
  <2>3. CASE Stop
    BY <2>3 DEF Stop
  <2>4. CASE Download \/ UNCHANGED vars
    BY <1>1, <2>4, SameTiersStep DEF Live
  <2>5. CASE ManualAnnounce
    BY <1>1, <2>5, ManualAnnounceStep
  <2>6. CASE ChangeMyPort
    BY <1>1, <2>6, ChangeMyPortStep
  <2>7. ASSUME NEW l \in Lists, Reset(l) PROVE Excused(t)
    BY <2>7
  <2>8. CASE SomeUpkeep
    BY <1>1, <2>8, UpkeepStep DEF SomeUpkeep
  <2>9. ASSUME NEW a \in announces, AnnounceAcked(a) PROVE Excused(t)
    BY <1>1, <2>9, AnnounceAckedStep
  <2>10. ASSUME NEW a \in announces, AnnounceFailed(a) PROVE Excused(t)
    BY <1>1, <2>10, AnnounceFailedStep DEF Of
  <2>11. ASSUME NEW a \in announces, AnnounceUnregistered(a) PROVE Excused(t)
    BY <1>1, <2>11, AnnounceUnregisteredStep DEF Of
  <2>12. ASSUME NEW k \in Trackers, NEW ok \in BOOLEAN, ScrapeDone(k, ok) PROVE Excused(t)
    BY <1>1, <2>12, ScrapeDoneStep
  <2> HIDE DEF Excused
  <2> QED
    BY <1>1, <2>1, <2>2, <2>3, <2>4, <2>5, <2>6, <2>7, <2>8, <2>9, <2>10, <2>11, <2>12 DEF Next
<1>2. IInv /\ [Next]_vars => [\A t \in Live : Excused(t)]_vars
  BY <1>1
<1> QED
  BY <1>2, Invariance, PTL DEF Spec, SilencedOnlyBy
=============================================================================
