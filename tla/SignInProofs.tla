---------------------------- MODULE SignInProofs ----------------------------
(***************************************************************************)
(* Proofs about SignIn: nobody is asked to sign in by hand without a       *)
(* cause, and at most one request of a program carries the wrong time.     *)
(***************************************************************************)
EXTENDS SignIn, TLAPS

Cause == excused \/ crashes > 0

\* What the steps need to know of the variables.
TypesInv ==
    /\ cache \in {NoFile, Torn} \cup Nat
    /\ at \in [Program -> At] /\ live \in [Program -> {NoFile} \cup Nat]
    /\ via \in [Program -> {"none", "refresh", "poll"}]
    /\ party \in [Program -> {"realms", "playfab", "multiplayer"}]
    /\ crashes \in Nat /\ excused \in BOOLEAN /\ asked \subseteq Program /\ now \in Nat

\* The user is asked for a cause; a token to save was renewed, or asked for.
PlacesInv ==
    \A p \in Program :
        /\ at[p] \in {"ask", "poll"} => Cause
        /\ at[p] \in {"save", "write"} => via[p] = "refresh" \/ Cause

\* A file that is not whole is being written, or was left by a program that ended.
FileInv == cache = Torn => Cause \/ \E q \in Program : at[q] = "write"

AskedInv == asked # {} => Cause

AskInv == TypesInv /\ PlacesInv /\ FileInv /\ AskedInv

\* One wrong request sets the clock.
ClockInv ==
    /\ corrected \in [Program -> BOOLEAN] /\ wrong \in [Program -> Nat]
    /\ \A p \in Program : wrong[p] <= 1 /\ (wrong[p] >= 1 => corrected[p])

Watched == {"ask", "poll", "save", "write"}

-----------------------------------------------------------------------------

\* A cause stays one.
LEMMA CauseStays ==
    ASSUME crashes \in Nat, crashes' = crashes \/ crashes' = crashes + 1,
           excused => excused', Cause
    PROVE  Cause'
BY DEF Cause

\* A step between two other places disturbs nothing that AskInv says.
LEMMA Moves ==
    ASSUME AskInv, NEW p \in Program, NEW to \in At \ Watched,
           at[p] # "write", Goes(p, to), UNCHANGED <<cache, via, crashes, excused, asked>>
    PROVE  PlacesInv' /\ FileInv' /\ AskedInv' /\ at' \in [Program -> At]
<1>1. at' \in [Program -> At]
  BY DEF AskInv, TypesInv, Goes
<1>2. \A q \in Program : at'[q] \in Watched => at'[q] = at[q]
  BY DEF AskInv, TypesInv, Goes
<1>3. PlacesInv'
  BY <1>2 DEF AskInv, PlacesInv, Cause, Watched
<1>4. \A q \in Program : at[q] = "write" => at'[q] = "write"
  BY DEF AskInv, TypesInv, Goes
<1>5. FileInv'
  BY <1>4 DEF AskInv, FileInv, Cause
<1>6. AskedInv'
  BY DEF AskInv, AskedInv, Cause
<1> QED BY <1>1, <1>3, <1>5, <1>6

\* The same for a step that leaves every program in its place.
LEMMA Waits ==
    ASSUME AskInv, UNCHANGED <<cache, at, via, crashes, excused, asked>>
    PROVE  PlacesInv' /\ FileInv' /\ AskedInv'
BY DEF AskInv, PlacesInv, FileInv, AskedInv, Cause

\* A cause is all that is needed.
LEMMA WithCause ==
    ASSUME Cause'
    PROVE  PlacesInv' /\ FileInv' /\ AskedInv'
BY DEF PlacesInv, FileInv, AskedInv

LEMMA InitAsk == Init => AskInv
<1> SUFFICES ASSUME Init PROVE AskInv
  OBVIOUS
<1>1. cache \in {NoFile, Torn} \cup Nat /\ cache # Torn
  BY LifetimeAssumption DEF Init, NoFile, Torn
<1>2. excused \in BOOLEAN
  BY Zenon DEF Init
<1>3. TypesInv
  BY <1>1, <1>2 DEF Init, TypesInv, NoFile, At
<1>4. PlacesInv
  BY DEF Init, PlacesInv
<1> QED BY <1>1, <1>3, <1>4 DEF Init, AskInv, FileInv, AskedInv

\* get_live_token: no file is a cause, and so is one that somebody is writing.
LEMMA LoadKeeps ==
    ASSUME AskInv, NEW p \in Program, Load(p)
    PROVE  AskInv'
<1>a. excused' \in BOOLEAN
  BY Zenon DEF Load
<1>b. excused => excused'
  BY Zenon DEF Load
<1>c. cache = NoFile => excused'
  BY Zenon DEF Load
<1>d. cache = Torn => Cause'
  <2> SUFFICES ASSUME cache = Torn PROVE Cause'
    OBVIOUS
  <2>1. CASE \E q \in Program : at[q] = "write"
    BY <2>1, Zenon DEF Load, Cause
  <2>2. CASE Cause
    BY <2>2, <1>b, CauseStays DEF Load, AskInv, TypesInv
  <2> QED BY <2>1, <2>2 DEF AskInv, FileInv
<1>1. TypesInv'
  <2>1. at' \in [Program -> At] /\ live' \in [Program -> {NoFile} \cup Nat]
    BY DEF Load, AskInv, TypesInv, Goes, At, Request
  <2>2. UNCHANGED <<now, cache, via, party, crashes, asked>>
    BY DEF Load, xbox
  <2> QED BY <1>a, <2>1, <2>2 DEF AskInv, TypesInv
<1>2. CASE cache = NoFile
  BY <1>1, <1>2, <1>c, WithCause DEF AskInv, Cause
<1>3. CASE cache = Torn
  BY <1>1, <1>3, <1>d, WithCause DEF AskInv
<1>4. CASE cache \notin {NoFile, Torn}
  <2>1. excused' = (excused \/ FALSE)
    BY <1>4, Zenon DEF Load
  <2>2. excused' = excused
    BY <2>1, Zenon DEF AskInv, TypesInv
  <2>3. PICK to \in {"device", "refresh"} : Goes(p, to)
    BY <1>4 DEF Load
  <2>4. PlacesInv' /\ FileInv' /\ AskedInv'
    BY <2>2, <2>3, Moves DEF Load, At, Request, Watched
  <2> QED BY <1>1, <2>4 DEF AskInv
<1> QED BY <1>2, <1>3, <1>4

\* refresh_token: whatever goes wrong excuses the question.
LEMMA RefreshKeeps ==
    ASSUME AskInv, NEW p \in Program, Refresh(p)
    PROVE  AskInv'
<1>1. CASE /\ live' = [live EXCEPT ![p] = IssuedNow] /\ via' = [via EXCEPT ![p] = "refresh"]
           /\ Goes(p, "save") /\ UNCHANGED excused
  <2>1. TypesInv'
    BY <1>1, LifetimeAssumption
    DEF Refresh, AskInv, TypesInv, Goes, At, Request, Ended, IssuedNow, xbox
  <2>2. at[p] = "refresh" /\ UNCHANGED <<cache, crashes, excused, asked>>
    BY <1>1 DEF Refresh
  <2>3. /\ \A q \in Program : q # p => at'[q] = at[q] /\ via'[q] = via[q]
        /\ at'[p] = "save" /\ via'[p] = "refresh"
    BY <1>1 DEF AskInv, TypesInv, Goes
  <2>4. PlacesInv'
    BY <2>2, <2>3 DEF AskInv, PlacesInv, Cause
  <2>5. FileInv'
    BY <2>2, <2>3 DEF AskInv, FileInv, Cause
  <2>6. AskedInv'
    BY <2>2 DEF AskInv, AskedInv, Cause
  <2> QED BY <2>1, <2>4, <2>5, <2>6 DEF AskInv
<1>2. CASE Goes(p, "ask") /\ excused' = TRUE /\ UNCHANGED <<live, via>>
  <2>1. TypesInv'
    BY <1>2 DEF Refresh, AskInv, TypesInv, Goes, At, Request, xbox
  <2>2. Cause'
    BY <1>2 DEF Cause
  <2> QED BY <2>1, <2>2, WithCause DEF AskInv
<1> QED BY <1>1, <1>2 DEF Refresh

\* request_live_token is called, and goes on, for a cause.
LEMMA AskKeeps ==
    ASSUME AskInv, NEW p \in Program, Ask(p) \/ Poll(p) \/ PollPending(p)
    PROVE  AskInv'
<1>1. TypesInv'
  BY LifetimeAssumption
  DEF Ask, Poll, PollPending, AskInv, TypesInv, Goes, Fails, At, Request, Ended, IssuedNow,
      token, xbox, signing, history
<1>2. Cause'
  BY CauseStays DEF Ask, Poll, PollPending, AskInv, TypesInv, PlacesInv, history
<1> QED BY <1>1, <1>2, WithCause DEF AskInv

\* save_token: the file is not whole while somebody writes it.
LEMMA SaveKeeps ==
    ASSUME AskInv, NEW p \in Program, Save(p)
    PROVE  AskInv'
<1>1. TypesInv'
  BY DEF Save, AskInv, TypesInv, Goes, At, Request, xbox, history, signing
<1>2. /\ \A q \in Program : q # p => at'[q] = at[q]
      /\ at[p] = "save" /\ at'[p] = "write"
      /\ UNCHANGED <<via, crashes, excused, asked>>
  BY DEF Save, AskInv, TypesInv, Goes, history
<1>3. PlacesInv'
  BY <1>2 DEF AskInv, PlacesInv, Cause
<1>4. FileInv'
  BY <1>2 DEF FileInv
<1>5. AskedInv'
  BY <1>2 DEF AskInv, AskedInv, Cause
<1> QED BY <1>1, <1>3, <1>4, <1>5 DEF AskInv

LEMMA WriteKeeps ==
    ASSUME AskInv, NEW p \in Program, Write(p)
    PROVE  AskInv'
<1>1. TypesInv'
  BY DEF Write, AskInv, TypesInv, Goes, At, Request, xbox, history, signing
<1>2. /\ \A q \in Program : q # p => at'[q] = at[q]
      /\ at'[p] = "device"
      /\ UNCHANGED <<via, crashes, excused, asked>>
  BY DEF Write, AskInv, TypesInv, Goes, history
<1>3. PlacesInv'
  BY <1>2 DEF AskInv, PlacesInv, Cause
<1>4. cache' # Torn
  BY DEF Write, AskInv, TypesInv, NoFile, Torn
<1>5. AskedInv'
  BY <1>2 DEF AskInv, AskedInv, Cause
<1> QED BY <1>1, <1>3, <1>4, <1>5 DEF AskInv, FileInv

LEMMA SaveFailsKeeps ==
    ASSUME AskInv, NEW p \in Program, SaveFails(p)
    PROVE  AskInv'
<1>1. TypesInv'
  BY DEF SaveFails, AskInv, TypesInv, Goes, Fails, At, Request, Ended, token, xbox, signing
<1>2. Cause'
  BY CauseStays DEF SaveFails, AskInv, TypesInv, PlacesInv, Cause
<1> QED BY <1>1, <1>2, WithCause DEF AskInv

LEMMA CrashKeeps ==
    ASSUME AskInv, NEW p \in Program, Crash(p)
    PROVE  AskInv'
<1>1. TypesInv'
  BY DEF Crash, AskInv, TypesInv, Goes, At, Request, NoFile
<1>2. Cause'
  BY DEF Crash, AskInv, TypesInv, Cause
<1> QED BY <1>1, <1>2, WithCause DEF AskInv

\* request_xbl_token goes on to the services, or starts again, or ends.
LEMMA XboxKeeps ==
    ASSUME AskInv, NEW p \in Program,
           DeviceRefused(p) \/ DeviceGranted(p) \/ StaleToken(p) \/ SisuRefused(p)
             \/ SisuGranted(p)
    PROVE  AskInv'
<1> USE DEF DeviceRefused, DeviceGranted, StaleToken, SisuRefused, SisuGranted
<1>1. at[p] # "write"
  OBVIOUS
<1>2. UNCHANGED <<now, cache, live, via, crashes, excused, asked>>
  BY DEF token, history
<1>3. party' = party
  BY DEF TriesNext, xbox
<1>4. After(p) \in {"realm", "discover", "chain"}
  BY DEF AskInv, TypesInv, After
<1>5. \E to \in {"device", "refused", "sisu", "failed", "realm", "discover", "chain"} : Goes(p, to)
  BY <1>4 DEF TriesNext, Fails
<1>6. PICK to \in At \ Watched : Goes(p, to)
  BY <1>5 DEF At, Watched, Request, Ended
<1>7. PlacesInv' /\ FileInv' /\ AskedInv' /\ at' \in [Program -> At]
  BY <1>1, <1>2, <1>6, Moves
<1>8. TypesInv'
  BY <1>2, <1>3, <1>7 DEF AskInv, TypesInv
<1> QED BY <1>7, <1>8 DEF AskInv

\* The services and the Realm.
LEMMA ServicesKeep ==
    ASSUME AskInv, NEW p \in Program,
           Call(p) \/ Address(p) \/ RealmStarts(p) \/ RealmWaits(p) \/ RequestFails(p)
    PROVE  AskInv'
<1> USE DEF Call, Address, RealmStarts, RealmWaits, RequestFails, Asks, GetRealm, Discover,
            LoginWithXbox, RequestServiceToken, RequestMinecraftChain, RequestMultiplayerToken
<1>1. at[p] # "write"
  BY DEF Request
<1>2. UNCHANGED <<now, cache, live, via, crashes, excused, asked>>
  BY DEF token, history
<1>3. party' \in [Program -> {"realms", "playfab", "multiplayer"}]
  BY DEF AskInv, TypesInv, xbox, Requests
<1>4. \E to \in {"address", "ticket", "service", "session", "done", "device", "starting",
                 "failed"} : Goes(p, to)
  BY DEF Requests, Fails
<1>5. PICK to \in At \ Watched : Goes(p, to)
  BY <1>4 DEF At, Watched, Request, Ended
<1>6. PlacesInv' /\ FileInv' /\ AskedInv' /\ at' \in [Program -> At]
  BY <1>1, <1>2, <1>5, Moves
<1>7. TypesInv'
  BY <1>2, <1>3, <1>6 DEF AskInv, TypesInv
<1> QED BY <1>6, <1>7 DEF AskInv

LEMMA NextAsk == AskInv /\ [Next]_vars => AskInv'
<1> SUFFICES ASSUME AskInv, [Next]_vars PROVE AskInv'
  OBVIOUS
<1>1. CASE Tick
  <2>1. TypesInv'
    BY <1>1 DEF Tick, AskInv, TypesInv, token, xbox, history
  <2>2. PlacesInv' /\ FileInv' /\ AskedInv'
    BY <1>1, Waits DEF Tick, token, history
  <2> QED BY <2>1, <2>2 DEF AskInv
<1>2. CASE UNCHANGED vars
  <2>1. TypesInv'
    BY <1>2 DEF vars, AskInv, TypesInv, token, xbox, history
  <2>2. PlacesInv' /\ FileInv' /\ AskedInv'
    BY <1>2, Waits DEF vars, token, history
  <2> QED BY <2>1, <2>2 DEF AskInv
<1>3. CASE \E p \in Program : Step(p) \/ PollPending(p) \/ Crash(p)
  <2> PICK p \in Program : Step(p) \/ PollPending(p) \/ Crash(p)
    BY <1>3
  <2>1. CASE Load(p) BY <2>1, LoadKeeps
  <2>2. CASE Refresh(p) BY <2>2, RefreshKeeps
  <2>3. CASE Ask(p) \/ Poll(p) \/ PollPending(p) BY <2>3, AskKeeps
  <2>4. CASE Save(p) BY <2>4, SaveKeeps
  <2>5. CASE Write(p) BY <2>5, WriteKeeps
  <2>6. CASE SaveFails(p) BY <2>6, SaveFailsKeeps
  <2>7. CASE DeviceRefused(p) \/ DeviceGranted(p) \/ StaleToken(p) \/ SisuRefused(p)
               \/ SisuGranted(p)
    BY <2>7, XboxKeeps
  <2>8. CASE Call(p) \/ Address(p) \/ RealmStarts(p) \/ RealmWaits(p) \/ RequestFails(p)
    BY <2>8, ServicesKeep
  <2>9. CASE Crash(p) BY <2>9, CrashKeeps
  <2> QED BY <2>1, <2>2, <2>3, <2>4, <2>5, <2>6, <2>7, <2>8, <2>9 DEF Step
<1> QED BY <1>1, <1>2, <1>3 DEF Next

\* get_live_token: a user who has signed in before is asked again only for a cause.
THEOREM AskedOnlyForCause == Spec => []AskedForCause
<1>1. AskInv => AskedForCause
  BY DEF AskInv, AskedInv, AskedForCause, Cause
<1> QED BY <1>1, InitAsk, NextAsk, PTL DEF Spec

-----------------------------------------------------------------------------
(* The time that requests are signed with.                                 *)

LEMMA InitClock == Init => ClockInv
BY DEF Init, ClockInv

\* A step that signs also sets the clock.
LEMMA SignedIsCorrected ==
    ASSUME ClockInv, NEW p \in Program, Signs(p), Corrects(p)
    PROVE  ClockInv'
<1>1. corrected' \in [Program -> BOOLEAN] /\ wrong' \in [Program -> Nat]
  BY DEF ClockInv, Signs, Corrects
<1>2. ASSUME NEW q \in Program
      PROVE  wrong'[q] <= 1 /\ (wrong'[q] >= 1 => corrected'[q])
  <2>1. CASE q # p
    BY <2>1 DEF ClockInv, Signs, Corrects
  <2>2. CASE q = p
    <3>1. corrected'[q]
      BY <2>2 DEF ClockInv, Corrects
    <3>2. wrong'[q] = IF skewed /\ ~corrected[q] THEN wrong[q] + 1 ELSE wrong[q]
      BY <2>2 DEF ClockInv, Signs
    <3>3. wrong[q] \in Nat /\ wrong[q] <= 1 /\ (wrong[q] >= 1 => corrected[q])
      BY DEF ClockInv
    <3>4. wrong'[q] <= 1
      BY <3>2, <3>3
    <3> QED BY <3>1, <3>4
  <2> QED BY <2>1, <2>2
<1> QED BY <1>1, <1>2 DEF ClockInv

\* A clock that has been set stays set, as long as the program runs.
LEMMA CorrectedStays ==
    ASSUME ClockInv, wrong' = wrong,
           corrected' = corrected \/ \E p \in Program : Corrects(p)
    PROVE  ClockInv'
<1>1. corrected' \in [Program -> BOOLEAN]
  BY DEF ClockInv, Corrects
<1>2. \A q \in Program : corrected[q] => corrected'[q]
  BY DEF ClockInv, Corrects
<1> QED BY <1>1, <1>2 DEF ClockInv

LEMMA NextClock == ClockInv /\ [Next]_vars => ClockInv'
<1> SUFFICES ASSUME ClockInv, [Next]_vars PROVE ClockInv'
  OBVIOUS
<1>1. CASE Tick \/ UNCHANGED vars
  BY <1>1, CorrectedStays DEF Tick, vars, signing
<1>2. CASE \E p \in Program : Step(p) \/ PollPending(p) \/ Crash(p)
  <2> PICK p \in Program : Step(p) \/ PollPending(p) \/ Crash(p)
    BY <1>2
  <2>1. CASE DeviceRefused(p) \/ DeviceGranted(p) \/ SisuRefused(p) \/ SisuGranted(p)
    BY <2>1, SignedIsCorrected DEF DeviceRefused, DeviceGranted, SisuRefused, SisuGranted
  <2>2. CASE Refresh(p) \/ Poll(p) \/ PollPending(p)
    BY <2>2, CorrectedStays DEF Refresh, Poll, PollPending
  <2>3. CASE Load(p) \/ Ask(p) \/ Save(p) \/ Write(p) \/ SaveFails(p) \/ StaleToken(p)
    BY <2>3, CorrectedStays DEF Load, Ask, Save, Write, SaveFails, StaleToken, signing
  <2>4. CASE Call(p) \/ Address(p) \/ RealmStarts(p) \/ RealmWaits(p) \/ RequestFails(p)
    BY <2>4, CorrectedStays
    DEF Call, Address, RealmStarts, RealmWaits, RequestFails, Asks, GetRealm, Discover,
        LoginWithXbox, RequestServiceToken, RequestMinecraftChain, RequestMultiplayerToken,
        signing
  <2>5. CASE Crash(p)
    BY <2>5 DEF Crash, ClockInv
  <2> QED BY <2>1, <2>2, <2>3, <2>4, <2>5 DEF Step
<1> QED BY <1>1, <1>2 DEF Next

\* update_server_time: on a machine whose clock is wrong, each answer sets the time
\* before the next request is signed.
THEOREM WrongTimeAtMostOnce == Spec => []WrongTimeOnce
<1>1. ClockInv => WrongTimeOnce
  BY DEF ClockInv, WrongTimeOnce
<1> QED BY <1>1, InitClock, NextClock, PTL DEF Spec
=============================================================================
