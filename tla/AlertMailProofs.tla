--------------------------- MODULE AlertMailProofs ---------------------------
(***************************************************************************)
(* The mails of a Civic scout, for every set of events, calls, promises    *)
(* and workers, every order of the events and any number of invocations:   *)
(* the run shows the newest event its mail is known to have met, and a     *)
(* promise that comes due is mailed once.                                  *)
(***************************************************************************)
EXTENDS AlertMail, TLAPS

-----------------------------------------------------------------------------
(* Delivery events                                                         *)

\* A call in progress is about an event; what is marked or matched is stored.
Carried ==
  /\ \A c \in Calls : call[c].at # "idle" => call[c].event \in MailEvents
  /\ marking \subseteq arrived

EventsInv == Events!TypeOK /\ Carried /\ NewestEventShows

LEMMA EventsFacts ==
  /\ Telling \subseteq MailEvents /\ None \notin MailEvents
  /\ \A e \in MailEvents : When[e] \in Nat /\ When[e] > 0
BY EventsAssumed DEF Events!EventsAssumption

CallsOf == [at: {"idle", "called", "inserted", "found", "lost"},
            event: MailEvents \cup {None}]

\* A webhook call that goes on or ends, and the run and its worker.
OfCall(c) ==
  \/ \E e \in MailEvents : Events!Report(c, e)
  \/ Events!Insert(c) \/ Events!Find(c) \/ Events!Match(c) \/ Events!StoreOnly(c)
  \/ Events!CallFails(c)

OfSender ==
  \/ Events!MailAccepted \/ Events!UpdateRun \/ Events!MarkStored
  \/ Events!ShowNewest \/ Events!WorkerDies

LEMMA NoCallOf == Events!NoCall \in CallsOf /\ Events!NoCall.at = "idle"
BY DEF Events!NoCall, CallsOf

\* What a step of a call makes of it: another call about the same event, or
\* none.
LEMMA CallGoesOn ==
  ASSUME Events!TypeOK, Carried, NEW c \in Calls, OfCall(c)
  PROVE  \E x \in CallsOf : /\ call' = [call EXCEPT ![c] = x]
                            /\ x.at # "idle" => x.event \in MailEvents
<1> USE EventsFacts
<1>t. /\ call \in [Calls -> CallsOf] /\ call[c] \in CallsOf
      /\ call[c].at # "idle" => call[c].event \in MailEvents
  BY DEF Events!TypeOK, CallsOf, Carried
<1> DEFINE Kept == \E x \in CallsOf : /\ call' = [call EXCEPT ![c] = x]
                                      /\ x.at # "idle" => x.event \in MailEvents
<1>1. ASSUME Events!Done(c) PROVE Kept
  BY <1>1, NoCallOf DEF Events!Done
<1>2. ASSUME call[c].at # "idle", NEW to \in {"inserted", "found", "lost"},
             Events!GoTo(c, to)
      PROVE  Kept
  <2>1. call' = [call EXCEPT ![c] = [call[c] EXCEPT !.at = to]]
    BY <1>2, <1>t DEF Events!GoTo
  <2>2. [call[c] EXCEPT !.at = to] \in CallsOf /\ [call[c] EXCEPT !.at = to].event = call[c].event
    BY <1>t DEF CallsOf
  <2>. QED BY <1>2, <1>t, <2>1, <2>2
<1>3. ASSUME NEW e \in MailEvents, Events!Report(c, e) PROVE Kept
  <2>1. [at |-> "called", event |-> e] \in CallsOf
    BY DEF CallsOf
  <2>. QED BY <1>3, <2>1 DEF Events!Report
<1>4. CASE Events!Insert(c)
  <2>1. call[c].at # "idle"
    BY <1>4 DEF Events!Insert, Events!At
  <2>. QED BY <1>1, <1>2, <1>4, <2>1 DEF Events!Insert
<1>5. CASE Events!Find(c)
  <2>1. call[c].at # "idle"
    BY <1>5 DEF Events!Find, Events!At
  <2>. QED BY <1>1, <1>2, <1>5, <2>1 DEF Events!Find
<1>6. CASE Events!Match(c) \/ Events!StoreOnly(c) \/ Events!CallFails(c)
  BY <1>1, <1>6 DEF Events!Match, Events!StoreOnly, Events!CallFails
<1>. QED BY <1>3, <1>4, <1>5, <1>6 DEF OfCall

\* The run that shows the newest of some matched events shows the newest of
\* them and another, if it turns to that one exactly when it is no older.
LEMMA NewestOfMore ==
  ASSUME NewestEventShows, NEW e \in MailEvents, arrived \subseteq MailEvents,
         matched \subseteq arrived, shown \in Telling \cup {None},
         matched' = matched \cup {e},
         shown' = IF Events!Newer(e) THEN e ELSE shown
  PROVE  NewestEventShows'
<1> USE EventsFacts DEF NewestEventShows, Events!NewestEventShows, Events!Newer,
                        Events!ShownAt
<1>1. CASE Events!Newer(e)
  <2>1. shown' = e /\ e \in Telling /\ e # None
    BY <1>1
  <2>2. ASSUME NEW f \in matched \cap Telling PROVE When[f] <= When[e]
    BY <1>1, <2>2
  <2>. QED BY <2>1, <2>2
<1>2. CASE ~Events!Newer(e)
  <2>1. shown' = shown
    BY <1>2
  <2>2. e \in Telling => shown # None /\ When[e] <= When[shown]
    BY <1>2
  <2>. QED BY <2>1, <2>2
<1>. QED BY <1>1, <1>2

LEMMA CallKeepsEvents ==
  ASSUME EventsInv, NEW c \in Calls, OfCall(c)
  PROVE  EventsInv'
<1> USE EventsFacts
<1>t. /\ Events!TypeOK /\ Carried /\ NewestEventShows
      /\ arrived \subseteq MailEvents /\ matched \subseteq arrived
      /\ marking \subseteq MailEvents /\ shown \in Telling \cup {None}
      /\ call \in [Calls -> CallsOf]
      /\ sender \in {"sending", "sent", "updating", "marked", "over"}
      /\ known \in BOOLEAN
  BY DEF EventsInv, Events!TypeOK, CallsOf
<1>1. PICK x \in CallsOf : /\ call' = [call EXCEPT ![c] = x]
                           /\ x.at # "idle" => x.event \in MailEvents
  BY <1>t, CallGoesOn
<1>2. UNCHANGED <<sender, marking, known>>
  BY DEF OfCall, Events!Report, Events!Insert, Events!Find, Events!Match,
         Events!StoreOnly, Events!CallFails
<1>3. call' \in [Calls -> CallsOf]
      /\ \A d \in Calls : call'[d].at # "idle" => call'[d].event \in MailEvents
  BY <1>t, <1>1 DEF Carried
<1>4. ASSUME arrived \subseteq arrived', arrived' \subseteq MailEvents,
             matched' \subseteq arrived', shown' \in Telling \cup {None},
             NewestEventShows'
      PROVE  EventsInv'
  <2>1. Carried'
    BY <1>t, <1>2, <1>3, <1>4 DEF Carried
  <2>2. Events!TypeOK'
    BY <1>t, <1>2, <1>3, <1>4 DEF Events!TypeOK, CallsOf
  <2>. QED BY <1>4, <2>1, <2>2 DEF EventsInv
<1>5. CASE UNCHANGED <<arrived, matched, shown>>
  <2>1. NewestEventShows'
    BY <1>t, <1>5 DEF NewestEventShows, Events!NewestEventShows
  <2>. QED BY <1>t, <1>4, <1>5, <2>1
<1>6. ASSUME Events!Match(c) \/ Events!StoreOnly(c) PROVE call[c].event \in MailEvents
  BY <1>6, <1>t DEF Events!Match, Events!StoreOnly, Events!At, Carried
<1>7. CASE Events!Match(c)
  <2>1. PICK e \in MailEvents : e = call[c].event
    BY <1>6, <1>7
  <2>2. /\ arrived' = arrived \cup {e} /\ matched' = matched \cup {e}
        /\ shown' = IF Events!Newer(e) THEN e ELSE shown
    BY <1>7, <2>1 DEF Events!Match
  <2>3. NewestEventShows'
    BY <1>t, <2>2, NewestOfMore
  <2>4. shown' \in Telling \cup {None}
    BY <1>t, <2>2 DEF Events!Newer
  <2>. QED BY <1>t, <1>4, <2>2, <2>3, <2>4
<1>8. CASE Events!StoreOnly(c)
  <2>1. arrived' = arrived \cup {call[c].event} /\ UNCHANGED <<matched, shown>>
    BY <1>8 DEF Events!StoreOnly
  <2>2. NewestEventShows'
    BY <1>t, <2>1 DEF NewestEventShows, Events!NewestEventShows
  <2>. QED BY <1>t, <1>4, <1>6, <1>8, <2>1, <2>2
<1>9. CASE (\E e \in MailEvents : Events!Report(c, e)) \/ Events!Insert(c)
           \/ Events!Find(c) \/ Events!CallFails(c)
  BY <1>5, <1>9 DEF Events!Report, Events!Insert, Events!Find, Events!CallFails
<1>. QED BY <1>7, <1>8, <1>9 DEF OfCall

LEMMA SenderKeepsEvents ==
  ASSUME EventsInv, OfSender \/ UNCHANGED Events!vars
  PROVE  EventsInv'
<1> USE EventsFacts
<1>t. /\ Events!TypeOK /\ Carried /\ NewestEventShows
      /\ arrived \subseteq MailEvents /\ matched \subseteq arrived
      /\ marking \subseteq arrived /\ shown \in Telling \cup {None}
  BY DEF EventsInv, Events!TypeOK, Carried
<1>1. ASSUME UNCHANGED <<arrived, matched, shown, known, call>>,
             marking' \subseteq arrived,
             sender' \in {"sending", "sent", "updating", "marked", "over"}
      PROVE  EventsInv'
  BY <1>t, <1>1 DEF EventsInv, Events!TypeOK, Carried, NewestEventShows,
                    Events!NewestEventShows
<1>2. CASE Events!MailAccepted \/ Events!UpdateRun \/ Events!MarkStored
           \/ Events!WorkerDies
  BY <1>1, <1>2, <1>t DEF Events!MailAccepted, Events!UpdateRun, Events!MarkStored,
                          Events!WorkerDies
<1>3. CASE Events!ShowNewest
  <2> DEFINE told == arrived \cap Telling
  <2>1. /\ matched' = matched \cup marking /\ marking' = {} /\ known' = TRUE
        /\ sender' = "over" /\ UNCHANGED <<arrived, call>>
    BY <1>3 DEF Events!ShowNewest
  <2>2. NewestEventShows' /\ shown' \in Telling \cup {None}
    <3>1. CASE told = {} /\ UNCHANGED shown
      BY <1>t, <2>1, <3>1 DEF NewestEventShows, Events!NewestEventShows
    <3>2. CASE \E e \in told : (\A f \in told : When[f] <= When[e]) /\ shown' = e
      <4>1. PICK e \in told : (\A f \in told : When[f] <= When[e]) /\ shown' = e
        BY <3>2
      <4>2. e # None /\ \A f \in matched' \cap Telling : f \in told
        BY <1>t, <2>1
      <4>. QED BY <4>1, <4>2 DEF NewestEventShows, Events!NewestEventShows
    <3>. QED BY <1>3, <3>1, <3>2 DEF Events!ShowNewest
  <2>3. Carried'
    BY <1>t, <2>1 DEF Carried
  <2>4. Events!TypeOK'
    BY <1>t, <2>1, <2>2 DEF Events!TypeOK
  <2>. QED BY <2>2, <2>3, <2>4 DEF EventsInv
<1>4. CASE UNCHANGED Events!vars
  BY <1>1, <1>4, <1>t DEF Events!vars, Events!TypeOK
<1>. QED BY <1>2, <1>3, <1>4 DEF OfSender

\* In whatever order and however often the provider reports what became of a
\* mail, before and after the worker stores its id, the run shows the newest
\* of the events that were matched with it.
THEOREM EventsNewestShows == Events!Spec => []NewestEventShows
<1>1. Events!Init => EventsInv
  <2>1. Events!Init => call \in [Calls -> CallsOf] /\ \A c \in Calls : call[c].at = "idle"
    BY NoCallOf DEF Events!Init
  <2>. QED BY <2>1 DEF Events!Init, EventsInv, Events!TypeOK, Carried, CallsOf,
                       NewestEventShows, Events!NewestEventShows
<1>2. EventsInv /\ [Events!Next]_(Events!vars) => EventsInv'
  BY CallKeepsEvents, SenderKeepsEvents DEF Events!Next, OfCall, OfSender
<1>3. EventsInv => NewestEventShows
  BY DEF EventsInv
<1>. QED BY <1>1, <1>2, <1>3, PTL DEF Events!Spec

-----------------------------------------------------------------------------
(* Reminders of promises                                                   *)

\* The provider's keys tell which promises were mailed; and what the ledger
\* calls accepted or sent, an invocation takes for mailed, or the promise says
\* the user was notified of, was mailed.
Mailed(p) == {p} \in provider

MailsKnown ==
  /\ \A p \in Promises : mails[p] = IF Mailed(p) THEN 1 ELSE 0
  /\ \A p \in Promises : reminder[p] \in {"provider_accepted", "sent"} => Mailed(p)
  /\ \A w \in Workers : place[w].at \in {"send", "mark", "finalize", "fail"} =>
                          place[w].on \in Promises
  /\ \A w \in Workers : place[w].at \in {"mark", "finalize"} => Mailed(place[w].on)
  /\ \A w \in Workers : \A p \in todo[w] \ needs[w] : Mailed(p)
  /\ \A p \in notified : Mailed(p)

RemindersInv == Reminders!TypeOK /\ MailsKnown

PlaceRecords == [at: Reminders!Places, on: Promises \cup {None}]

\* What an invocation does after its claim, one promise at a time.
OfReminder(w) ==
  \/ Reminders!NextItem(w) \/ Reminders!Send(w) \/ Reminders!MarkAccepted(w)
  \/ Reminders!FinalizeSent(w) \/ Reminders!FinalizeFailed(w) \/ Reminders!WorkerDies(w)

OfUser ==
  \/ \E p \in Promises : \/ Reminders!LeaseLapses(p)
                         \/ \E to \in {"in_progress", "closed"} : Reminders!Transition(p, to)
  \/ Reminders!SwitchEmail

LEMMA ReminderSteps ==
  ASSUME [Reminders!Next]_(Reminders!vars)
  PROVE  \/ \E w \in Workers : Reminders!Claim(w) \/ OfReminder(w)
         \/ OfUser \/ UNCHANGED Reminders!vars
BY DEF Reminders!Next, OfReminder, OfUser

LEMMA IdlePlace == /\ Reminders!Idle \in PlaceRecords /\ Reminders!Idle.at = "idle"
                   /\ Reminders!Idle.on = None
BY DEF Reminders!Idle, PlaceRecords, Reminders!Places

\* The types of the ledger and of the invocations, in parts.
LedgerTyped ==
  /\ reminder \in [Promises -> Reminders!States]
  /\ lessee \in [Promises -> Workers \cup {None}] /\ lapsed \subseteq Promises
OutsideTyped == provider \subseteq SUBSET Promises /\ mails \in [Promises -> Nat]
WorkTyped ==
  /\ todo \in [Workers -> SUBSET Promises] /\ needs \in [Workers -> SUBSET Promises]
  /\ place \in [Workers -> PlaceRecords] /\ runs \in 0..MaxRuns
UsersTyped ==
  /\ promise \in [Promises -> Reminders!Open \cup {"closed"}]
  /\ notified \subseteq Promises /\ listens \in BOOLEAN

LEMMA RemindersParts ==
  /\ Reminders!TypeOK => LedgerTyped /\ OutsideTyped /\ WorkTyped /\ UsersTyped
  /\ LedgerTyped' /\ OutsideTyped' /\ WorkTyped' /\ UsersTyped' => Reminders!TypeOK'
BY DEF Reminders!TypeOK, LedgerTyped, OutsideTyped, WorkTyped, UsersTyped, PlaceRecords

\* A worker that goes to a place is there, and the others stay where they are.
LEMMA GoesTo ==
  ASSUME WorkTyped, NEW w \in Workers, NEW to \in Reminders!Places,
         NEW p \in Promises \cup {None}, Reminders!GoTo(w, to, p)
  PROVE  /\ place' \in [Workers -> PlaceRecords]
         /\ place'[w].at = to /\ place'[w].on = p
         /\ \A v \in Workers \ {w} : place'[v] = place[v]
<1>1. [at |-> to, on |-> p] \in PlaceRecords
  BY DEF PlaceRecords
<1>. QED BY <1>1 DEF WorkTyped, Reminders!GoTo

\* A claim takes for mailed what the ledger says the provider accepted.
LEMMA ClaimKeeps ==
  ASSUME RemindersInv, NEW w \in Workers, Reminders!Claim(w)
  PROVE  RemindersInv'
<1>t. LedgerTyped /\ OutsideTyped /\ WorkTyped /\ UsersTyped /\ MailsKnown
  BY RemindersParts DEF RemindersInv
<1>1. PICK batch \in SUBSET Promises :
        /\ todo' = [todo EXCEPT ![w] = batch]
        /\ needs' = [needs EXCEPT ![w] =
                       {p \in batch : reminder[p] # "provider_accepted"}]
        /\ reminder' = [p \in Promises |->
             IF p \in batch /\ reminder[p] # "provider_accepted" THEN "sending"
                                                                ELSE reminder[p]]
        /\ lessee' = [p \in Promises |-> IF p \in batch THEN w ELSE lessee[p]]
        /\ lapsed' = lapsed \ batch
  BY DEF Reminders!Claim
<1>2. /\ Reminders!GoTo(w, "item", None) /\ runs' \in 0..MaxRuns
      /\ UNCHANGED <<promise, notified, listens, provider, mails>>
  BY <1>t, RemindersAssumed DEF Reminders!Claim, Reminders!outside, WorkTyped,
     Reminders!RemindersAssumption
<1>3. /\ place' \in [Workers -> PlaceRecords] /\ place'[w].at = "item"
      /\ \A v \in Workers \ {w} : place'[v] = place[v]
  BY <1>t, <1>2, GoesTo DEF Reminders!Places
<1>4. LedgerTyped'
  BY <1>t, <1>1 DEF LedgerTyped, Reminders!States
<1>5. WorkTyped'
  BY <1>t, <1>1, <1>2, <1>3 DEF WorkTyped
<1>6. OutsideTyped' /\ UsersTyped'
  BY <1>t, <1>2 DEF OutsideTyped, UsersTyped
<1>7. MailsKnown'
  <2>1. \A p \in Promises : mails'[p] = IF Mailed(p)' THEN 1 ELSE 0
    BY <1>t, <1>2 DEF MailsKnown, Mailed
  <2>2. \A p \in Promises : reminder'[p] \in {"provider_accepted", "sent"} => Mailed(p)'
    BY <1>t, <1>1, <1>2 DEF MailsKnown, Mailed
  <2>3. \A v \in Workers : \A p \in todo'[v] \ needs'[v] : Mailed(p)'
    BY <1>t, <1>1, <1>2 DEF MailsKnown, Mailed, WorkTyped
  <2>4. \A p \in notified' : Mailed(p)'
    BY <1>t, <1>2 DEF MailsKnown, Mailed
  <2>5. \A v \in Workers :
          /\ place'[v].at \in {"send", "mark", "finalize", "fail"} => place'[v].on \in Promises
          /\ place'[v].at \in {"mark", "finalize"} => {place'[v].on} \in provider'
    BY <1>t, <1>2, <1>3 DEF MailsKnown, Mailed
  <2>. QED BY <2>1, <2>2, <2>3, <2>4, <2>5 DEF MailsKnown, Mailed
<1>. QED BY <1>4, <1>5, <1>6, <1>7, RemindersParts DEF RemindersInv

\* A step of one invocation keeps what is known, if what it does to its own
\* promise does.
LEMMA OneKeeps ==
  ASSUME RemindersInv, NEW w \in Workers,
         LedgerTyped', OutsideTyped', WorkTyped', UsersTyped',
         provider \subseteq provider', needs' = needs,
         \A v \in Workers \ {w} : place'[v] = place[v] /\ todo'[v] = todo[v],
         todo'[w] \subseteq todo[w],
         place'[w].at \in {"send", "mark", "finalize", "fail"} => place'[w].on \in Promises,
         place'[w].at \in {"mark", "finalize"} => {place'[w].on} \in provider',
         \A p \in Promises : mails'[p] = IF {p} \in provider' THEN 1 ELSE 0,
         \A p \in Promises :
           reminder'[p] \in {"provider_accepted", "sent"} => {p} \in provider',
         \A p \in notified' : {p} \in provider'
  PROVE  RemindersInv'
<1>1. \A v \in Workers : \A p \in todo'[v] \ needs'[v] : {p} \in provider'
  BY DEF RemindersInv, MailsKnown, Mailed
<1>2. \A v \in Workers :
        /\ place'[v].at \in {"send", "mark", "finalize", "fail"} => place'[v].on \in Promises
        /\ place'[v].at \in {"mark", "finalize"} => {place'[v].on} \in provider'
  BY DEF RemindersInv, MailsKnown, Mailed
<1>3. MailsKnown'
  BY <1>1, <1>2 DEF MailsKnown, Mailed
<1>. QED BY <1>3, RemindersParts DEF RemindersInv

\* The same where no mail goes out: the ledger calls accepted or sent what it
\* did before, and what the invocation knows to be mailed.
LEMMA OneKeepsQuiet ==
  ASSUME RemindersInv, NEW w \in Workers, LedgerTyped', WorkTyped', UsersTyped',
         UNCHANGED <<provider, mails>>, needs' = needs,
         \A v \in Workers \ {w} : place'[v] = place[v] /\ todo'[v] = todo[v],
         todo'[w] \subseteq todo[w],
         place'[w].at \in {"send", "mark", "finalize", "fail"} => place'[w].on \in Promises,
         place'[w].at \in {"mark", "finalize"} => {place'[w].on} \in provider,
         \A p \in Promises :
           reminder'[p] \in {"provider_accepted", "sent"} =>
             reminder[p] \in {"provider_accepted", "sent"} \/ {p} \in provider,
         \A p \in notified' : p \in notified \/ {p} \in provider
  PROVE  RemindersInv'
<1>1. /\ \A p \in Promises : mails[p] = IF {p} \in provider THEN 1 ELSE 0
      /\ \A p \in Promises : reminder[p] \in {"provider_accepted", "sent"} => {p} \in provider
      /\ \A p \in notified : {p} \in provider
  BY DEF RemindersInv, MailsKnown, Mailed
<1>2. OutsideTyped'
  BY RemindersParts DEF RemindersInv, OutsideTyped
<1>3. /\ provider \subseteq provider'
      /\ place'[w].at \in {"mark", "finalize"} => {place'[w].on} \in provider'
      /\ \A p \in Promises : mails'[p] = IF {p} \in provider' THEN 1 ELSE 0
      /\ \A p \in Promises :
           reminder'[p] \in {"provider_accepted", "sent"} => {p} \in provider'
      /\ \A p \in notified' : {p} \in provider'
  BY <1>1
<1>. QED BY <1>2, <1>3, OneKeeps

LEMMA SendKeeps ==
  ASSUME RemindersInv, NEW w \in Workers, Reminders!Send(w)
  PROVE  RemindersInv'
<1>t. LedgerTyped /\ OutsideTyped /\ WorkTyped /\ UsersTyped /\ MailsKnown
  BY RemindersParts DEF RemindersInv
<1>1. PICK p \in Promises : p = place[w].on
  BY <1>t DEF Reminders!Send, Reminders!At, MailsKnown
<1>2. UNCHANGED <<promise, notified, listens, reminder, lessee, lapsed, todo, needs, runs>>
  BY DEF Reminders!Send, Reminders!ledger
<1>3. PICK to \in {"mark", "fail"} : Reminders!GoTo(w, to, p)
  BY <1>1 DEF Reminders!Send, Reminders!On
<1>4. /\ place' \in [Workers -> PlaceRecords]
      /\ place'[w].at = to /\ place'[w].on = p
      /\ \A v \in Workers \ {w} : place'[v] = place[v]
  BY <1>t, <1>3, GoesTo DEF Reminders!Places
<1>5. LedgerTyped' /\ WorkTyped' /\ UsersTyped'
  BY <1>t, <1>2, <1>4 DEF LedgerTyped, WorkTyped, UsersTyped
<1>6. CASE /\ provider' = provider \cup {{p}}
           /\ mails' = IF {p} \in provider THEN mails ELSE [mails EXCEPT ![p] = @ + 1]
  <2>m. /\ mails \in [Promises -> Nat] /\ provider \subseteq SUBSET Promises
        /\ \A q \in Promises : mails[q] = IF {q} \in provider THEN 1 ELSE 0
        /\ \A q \in Promises : reminder[q] \in {"provider_accepted", "sent"} => {q} \in provider
        /\ \A q \in notified : {q} \in provider
    BY <1>t DEF OutsideTyped, MailsKnown, Mailed
  <2>0. {p} \notin provider => mails[p] + 1 = 1
    BY <2>m
  <2>1. mails' = IF {p} \in provider THEN mails ELSE [mails EXCEPT ![p] = 1]
    <3>1. CASE {p} \in provider
      BY <1>6, <3>1
    <3>2. CASE {p} \notin provider
      BY <1>6, <2>0, <3>2
    <3>. QED BY <3>1, <3>2
  <2>2. OutsideTyped'
    BY <1>6, <2>m, <2>1 DEF OutsideTyped
  <2>3. ASSUME NEW q \in Promises PROVE mails'[q] = IF {q} \in provider' THEN 1 ELSE 0
    <3>1. CASE q = p
      BY <1>6, <2>m, <2>1, <3>1
    <3>2. CASE q # p
      <4>1. mails'[q] = mails[q] /\ ({q} \in provider' <=> {q} \in provider)
        BY <1>6, <2>m, <2>1, <3>2
      <4>. QED BY <2>m, <4>1
    <3>. QED BY <3>1, <3>2
  <2>. QED BY <1>2, <1>4, <1>5, <1>6, <2>m, <2>2, <2>3, OneKeeps
<1>7. CASE Reminders!GoTo(w, "fail", p) /\ UNCHANGED <<provider, mails>>
  <2>1. place'[w].at = "fail" /\ place'[w].on \in Promises
    BY <1>t, <1>7, GoesTo DEF Reminders!Places
  <2>. QED BY <1>2, <1>4, <1>5, <1>7, <2>1, OneKeepsQuiet
<1>. QED BY <1>1, <1>6, <1>7
     DEF Reminders!Send, Reminders!On, Reminders!MailKey, Reminders!outside

LEMMA WorkKeeps ==
  ASSUME RemindersInv, NEW w \in Workers, OfReminder(w)
  PROVE  RemindersInv'
<1>t. LedgerTyped /\ OutsideTyped /\ WorkTyped /\ UsersTyped /\ MailsKnown
  BY RemindersParts DEF RemindersInv
<1>1. ASSUME Reminders!NextItem(w) PROVE RemindersInv'
  <2>1. /\ UNCHANGED <<promise, notified, listens, reminder, lessee, lapsed, provider,
                       mails, needs, runs>>
    BY <1>1 DEF Reminders!NextItem, Reminders!ledger, Reminders!outside
  <2>2. LedgerTyped' /\ UsersTyped'
    BY <1>t, <2>1 DEF LedgerTyped, UsersTyped
  <2>3. ASSUME NEW p \in todo[w], todo' = [todo EXCEPT ![w] = @ \ {p}],
               IF p \in needs[w] THEN Reminders!GoTo(w, "send", p)
                                 ELSE Reminders!GoTo(w, "finalize", p)
        PROVE  RemindersInv'
    <3>1. p \in Promises /\ (p \notin needs[w] => {p} \in provider)
      BY <1>t DEF WorkTyped, MailsKnown, Mailed
    <3>2. PICK to \in {"send", "finalize"} :
            Reminders!GoTo(w, to, p) /\ (to = "finalize" => {p} \in provider)
      BY <2>3, <3>1
    <3>3. /\ place' \in [Workers -> PlaceRecords]
          /\ place'[w].at = to /\ place'[w].on = p
          /\ \A v \in Workers \ {w} : place'[v] = place[v]
      BY <1>t, <3>1, <3>2, GoesTo DEF Reminders!Places
    <3>4. /\ todo' \in [Workers -> SUBSET Promises] /\ todo'[w] \subseteq todo[w]
          /\ \A v \in Workers \ {w} : todo'[v] = todo[v]
      BY <1>t, <2>3 DEF WorkTyped
    <3>5. WorkTyped'
      BY <1>t, <2>1, <3>3, <3>4 DEF WorkTyped
    <3>. QED BY <2>1, <2>2, <3>1, <3>2, <3>3, <3>4, <3>5, OneKeepsQuiet
  <2>4. ASSUME place' = [place EXCEPT ![w] = Reminders!Idle], UNCHANGED todo
        PROVE  RemindersInv'
    <3>1. /\ place' \in [Workers -> PlaceRecords] /\ place'[w].at = "idle"
          /\ \A v \in Workers \ {w} : place'[v] = place[v]
      BY <1>t, <2>4, IdlePlace DEF WorkTyped
    <3>2. WorkTyped'
      BY <1>t, <2>1, <2>4, <3>1 DEF WorkTyped
    <3>. QED BY <2>1, <2>2, <2>4, <3>1, <3>2, OneKeepsQuiet
  <2>. QED BY <1>1, <2>3, <2>4 DEF Reminders!NextItem
<1>2. ASSUME Reminders!WorkerDies(w) PROVE RemindersInv'
  <2>1. /\ place' = [place EXCEPT ![w] = Reminders!Idle]
        /\ todo' = [todo EXCEPT ![w] = {}]
        /\ UNCHANGED <<promise, notified, listens, reminder, lessee, lapsed, provider,
                       mails, needs, runs>>
    BY <1>2 DEF Reminders!WorkerDies, Reminders!ledger, Reminders!outside
  <2>2. /\ place' \in [Workers -> PlaceRecords] /\ place'[w].at = "idle"
        /\ \A v \in Workers \ {w} : place'[v] = place[v] /\ todo'[v] = todo[v]
        /\ todo' \in [Workers -> SUBSET Promises] /\ todo'[w] \subseteq todo[w]
    BY <1>t, <2>1, IdlePlace DEF WorkTyped
  <2>3. LedgerTyped' /\ UsersTyped' /\ WorkTyped'
    BY <1>t, <2>1, <2>2 DEF LedgerTyped, UsersTyped, WorkTyped
  <2>. QED BY <2>1, <2>2, <2>3, OneKeepsQuiet
\* The rest works on the one promise that the invocation is at.
<1>3. ASSUME NEW p \in Promises, NEW new \in Reminders!States \ {"none"},
             \/ UNCHANGED reminder
             \/ reminder' = [reminder EXCEPT ![p] = new],
             new \in {"provider_accepted", "sent"} => {p} \in provider,
             UNCHANGED lessee \/ lessee' = [lessee EXCEPT ![p] = None],
             notified' = notified \/ (notified' = notified \cup {p} /\ {p} \in provider),
             NEW to \in {"finalize", "item"}, NEW q \in Promises \cup {None},
             Reminders!GoTo(w, to, q),
             to = "finalize" => q = p /\ {p} \in provider,
             UNCHANGED <<promise, listens, lapsed, provider, mails, todo, needs, runs>>
      PROVE  RemindersInv'
  <2>1. /\ place' \in [Workers -> PlaceRecords]
        /\ place'[w].at = to /\ place'[w].on = q
        /\ \A v \in Workers \ {w} : place'[v] = place[v]
    BY <1>t, <1>3, GoesTo DEF Reminders!Places
  <2>2. reminder' \in [Promises -> Reminders!States]
        /\ \A r \in Promises : reminder'[r] \in {"provider_accepted", "sent"} =>
             reminder[r] \in {"provider_accepted", "sent"} \/ {r} \in provider
    BY <1>t, <1>3 DEF LedgerTyped
  <2>3. LedgerTyped'
    BY <1>t, <1>3, <2>2 DEF LedgerTyped
  <2>4. WorkTyped' /\ UsersTyped'
    BY <1>t, <1>3, <2>1 DEF WorkTyped, UsersTyped
  <2>. QED BY <1>3, <2>1, <2>2, <2>3, <2>4, OneKeepsQuiet
<1>4. ASSUME place[w].at \in {"mark", "finalize", "fail"}
      PROVE  /\ place[w].on \in Promises
             /\ place[w].at # "fail" => {place[w].on} \in provider
  BY <1>t, <1>4 DEF MailsKnown, Mailed
<1>5. ASSUME Reminders!MarkAccepted(w) PROVE RemindersInv'
  <2>1. PICK p \in Promises : p = place[w].on /\ {p} \in provider
    BY <1>4, <1>5 DEF Reminders!MarkAccepted, Reminders!At
  <2>2. PICK to \in {"finalize", "item"}, q \in Promises \cup {None} :
          Reminders!GoTo(w, to, q) /\ (to = "finalize" => q = p)
    BY <1>5, <2>1 DEF Reminders!MarkAccepted, Reminders!On
  <2>3. /\ UNCHANGED reminder \/ reminder' = [reminder EXCEPT ![p] = "provider_accepted"]
        /\ UNCHANGED <<promise, notified, listens, lessee, lapsed, provider, mails, todo,
                       needs, runs>>
    BY <1>5, <2>1 DEF Reminders!MarkAccepted, Reminders!On, Reminders!outside
  <2>. QED BY <1>3, <2>1, <2>2, <2>3 DEF Reminders!States
<1>6. ASSUME Reminders!FinalizeSent(w) PROVE RemindersInv'
  <2>1. PICK p \in Promises : p = place[w].on /\ {p} \in provider
    BY <1>4, <1>6 DEF Reminders!FinalizeSent, Reminders!At
  <2>2. /\ UNCHANGED reminder \/ reminder' = [reminder EXCEPT ![p] = "sent"]
        /\ UNCHANGED lessee \/ lessee' = [lessee EXCEPT ![p] = None]
        /\ notified' = notified \/ notified' = notified \cup {p}
        /\ Reminders!GoTo(w, "item", None)
        /\ UNCHANGED <<promise, listens, lapsed, provider, mails, todo, needs, runs>>
    BY <1>6, <2>1 DEF Reminders!FinalizeSent, Reminders!Released, Reminders!On,
                      Reminders!outside
  <2>. QED BY <1>3, <2>1, <2>2 DEF Reminders!States
<1>7. ASSUME Reminders!FinalizeFailed(w) PROVE RemindersInv'
  <2>1. PICK p \in Promises : p = place[w].on
    BY <1>4, <1>7 DEF Reminders!FinalizeFailed, Reminders!At
  <2>2. /\ UNCHANGED reminder \/ reminder' = [reminder EXCEPT ![p] = "failed"]
        /\ UNCHANGED lessee \/ lessee' = [lessee EXCEPT ![p] = None]
        /\ Reminders!GoTo(w, "item", None)
        /\ UNCHANGED <<promise, notified, listens, lapsed, provider, mails, todo, needs, runs>>
    BY <1>7, <2>1 DEF Reminders!FinalizeFailed, Reminders!Released, Reminders!On,
                      Reminders!outside
  <2>3. "failed" \in Reminders!States \ {"none"} /\ "failed" \notin {"provider_accepted", "sent"}
    BY DEF Reminders!States
  <2>4. notified' = notified /\ None \in Promises \cup {None}
        /\ ("item" \in {"mark", "finalize"} => {None} \in provider)
    BY <2>2
  <2>. QED BY <1>3, <2>1, <2>2, <2>3, <2>4
<1>. QED BY <1>1, <1>2, <1>5, <1>6, <1>7, SendKeeps DEF OfReminder

LEMMA UserKeeps ==
  ASSUME RemindersInv, OfUser \/ UNCHANGED Reminders!vars
  PROVE  RemindersInv'
<1>t. LedgerTyped /\ OutsideTyped /\ WorkTyped /\ UsersTyped /\ MailsKnown
  BY RemindersParts DEF RemindersInv
<1>1. ASSUME UNCHANGED <<notified, reminder, lessee, provider, mails, todo, needs, place,
                         runs>>,
             lapsed' \subseteq Promises, listens' \in BOOLEAN,
             promise' \in [Promises -> Reminders!Open \cup {"closed"}]
      PROVE  RemindersInv'
  <2>1. LedgerTyped' /\ OutsideTyped' /\ WorkTyped' /\ UsersTyped'
    BY <1>t, <1>1 DEF LedgerTyped, OutsideTyped, WorkTyped, UsersTyped
  <2>2. MailsKnown'
    BY <1>t, <1>1 DEF MailsKnown, Mailed
  <2>. QED BY <2>1, <2>2, RemindersParts DEF RemindersInv
<1>2. ASSUME NEW p \in Promises, Reminders!LeaseLapses(p) PROVE RemindersInv'
  BY <1>t, <1>1, <1>2 DEF Reminders!LeaseLapses, Reminders!outside, LedgerTyped, UsersTyped
<1>3. ASSUME NEW p \in Promises, NEW to \in {"in_progress", "closed"},
             Reminders!Transition(p, to)
      PROVE  RemindersInv'
  <2>1. /\ promise' = [promise EXCEPT ![p] = to]
        /\ UNCHANGED <<notified, listens, reminder, lessee, lapsed, provider, mails, todo,
                       needs, place, runs>>
    BY <1>3 DEF Reminders!Transition, Reminders!ledger, Reminders!outside
  <2>2. promise' \in [Promises -> Reminders!Open \cup {"closed"}]
    BY <1>t, <2>1 DEF UsersTyped, Reminders!Open
  <2>. QED BY <1>t, <1>1, <2>1, <2>2 DEF LedgerTyped, UsersTyped
<1>4. CASE Reminders!SwitchEmail
  BY <1>t, <1>1, <1>4 DEF Reminders!SwitchEmail, Reminders!ledger, Reminders!outside,
     LedgerTyped, UsersTyped
<1>5. CASE UNCHANGED Reminders!vars
  BY <1>t, <1>1, <1>5 DEF Reminders!vars, Reminders!ledger, Reminders!outside,
     LedgerTyped, UsersTyped
<1>. QED BY <1>2, <1>3, <1>4, <1>5 DEF OfUser

\* However invocations overrun their leases, die, lose the provider's answer
\* or repeat each other's work, a promise's deadline is mailed once, and only
\* a promise that was mailed is stamped.
THEOREM RemindersOnce == Reminders!Spec => []RemindedOnce
<1>1. Reminders!Init => RemindersInv
  <2>1. Reminders!Init => /\ place \in [Workers -> PlaceRecords]
                          /\ \A w \in Workers : place[w].at = "idle"
    BY IdlePlace DEF Reminders!Init
  <2>2. 0 \in 0..MaxRuns
    BY RemindersAssumed DEF Reminders!RemindersAssumption
  <2>3. Reminders!Init => Reminders!TypeOK
    BY <2>1, <2>2 DEF Reminders!Init, Reminders!TypeOK, Reminders!Open, Reminders!States,
       PlaceRecords
  <2>4. Reminders!Init => MailsKnown
    BY <2>1 DEF Reminders!Init, MailsKnown, Mailed
  <2>. QED BY <2>3, <2>4 DEF RemindersInv
<1>2. RemindersInv /\ [Reminders!Next]_(Reminders!vars) => RemindersInv'
  BY ReminderSteps, ClaimKeeps, WorkKeeps, UserKeeps
<1>3. RemindersInv => RemindedOnce
  BY DEF RemindersInv, MailsKnown, RemindedOnce, Reminders!RemindedOnce,
     Reminders!TypeOK
<1>. QED BY <1>1, <1>2, <1>3, PTL DEF Reminders!Spec
=============================================================================
