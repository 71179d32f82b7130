------------------------------- MODULE SignIn -------------------------------
(***************************************************************************)
(* Signing in to a Realm: the Live token and its cache (auth/live.py), the *)
(* Xbox tokens for one relying party after another (auth/xbox.py), the     *)
(* services of a NetherNet Realm (auth/service.py, auth/playfab.py), the   *)
(* login chain (auth/minecraft.py) and the Realm itself                    *)
(* (realms/__init__.py), in the order in which the programs of examples/   *)
(* call them.  Programs on one machine share the cache file, and may end   *)
(* at any point.  The services are the environment.                        *)
(***************************************************************************)
EXTENDS Integers, Sequences, FiniteSets, SequencesExt

CONSTANTS
    Program,      \* programs of one user, on one machine
    Config,       \* device types that programs ask for
    Lifetime,     \* of a Live token, in minutes
    TimeBound,    \* minutes that pass
    CrashBound    \* programs that are ended and started again

ASSUME LifetimeAssumption == Lifetime \in Nat /\ Lifetime > 1
ASSUME BoundsAssumption == TimeBound \in Nat /\ CrashBound \in Nat

VARIABLES
    now,
    cache,      \* token_cache.json
    at,         \* what each program is doing
    config,     \* the Config it was started with
    live,       \* its Live token
    via,        \* where the token to save comes from
    party,      \* the relying party of request_xbl_token
    try,        \* the attempt of request_xbl_token, of those in Tries
    skewed,     \* the clock of the machine is wrong
    corrected,  \* _server_time_delta has been set
    crashes,
    asked,      \* programs in which the user had to sign in by hand
    excused,    \* something that was bound to cost the cached token has happened
    wrong       \* requests that the program signed with the wrong time

token == <<cache, live, via>>
xbox == <<party, try>>
signing == <<corrected, wrong>>
history == <<asked, excused>>
vars == <<now, token, at, config, xbox, skewed, signing, crashes, history>>

\* A Live token is known by its expiry.
NoFile == -1
Torn == -2
valid(expiry) == now < expiry - 1
IssuedNow == now + Lifetime

\* _FALLBACK_CONFIGS
Fallbacks == <<"Android", "Nintendo", "Win32">>

Init ==
    /\ now = 0 /\ crashes = 0 /\ excused = FALSE
    /\ cache \in {NoFile} \cup 0..Lifetime
    /\ config \in [Program -> Config] /\ skewed \in BOOLEAN
    /\ at = [p \in Program |-> "load"]
    /\ live = [p \in Program |-> NoFile] /\ via = [p \in Program |-> "none"]
    /\ party = [p \in Program |-> "realms"] /\ try = [p \in Program |-> 1]
    /\ corrected = [p \in Program |-> FALSE] /\ wrong = [p \in Program |-> 0]
    /\ asked = {}

Ended == {"done", "failed", "refused"}
Goes(p, to) == at' = [at EXCEPT ![p] = to]
Fails(p) == Goes(p, "failed")

\* update_server_time
Corrects(p) == corrected' = [corrected EXCEPT ![p] = TRUE]

-----------------------------------------------------------------------------
(* get_live_token.                                                         *)

\* load_token: a file that is not whole counts as none.
Load(p) ==
    /\ at[p] = "load"
    /\ IF cache \in {NoFile, Torn} THEN Goes(p, "ask") /\ UNCHANGED live
       ELSE /\ live' = [live EXCEPT ![p] = cache]
            /\ Goes(p, IF valid(cache) THEN "device" ELSE "refresh")
    /\ excused' = \/ excused \/ cache = NoFile
                  \/ cache = Torn /\ \E q \in Program : at[q] = "write"
    /\ UNCHANGED <<now, cache, via, config, xbox, skewed, signing, crashes, asked>>

\* refresh_token: whatever goes wrong, the user is asked.
Refresh(p) ==
    /\ at[p] = "refresh"
    /\ \/ /\ live' = [live EXCEPT ![p] = IssuedNow] /\ via' = [via EXCEPT ![p] = "refresh"]
          /\ Goes(p, "save") /\ Corrects(p)
          /\ UNCHANGED excused
       \/ Goes(p, "ask") /\ excused' = TRUE /\ UNCHANGED <<live, via>>
          /\ (Corrects(p) \/ UNCHANGED corrected)
    /\ UNCHANGED <<now, cache, config, xbox, skewed, wrong, crashes, asked>>

\* request_live_token: a code for the user, and polls until the user has used it.
Ask(p) ==
    /\ at[p] = "ask"
    /\ \/ Goes(p, "poll") /\ asked' = asked \cup {p}
       \/ Fails(p) /\ UNCHANGED asked
    /\ UNCHANGED <<now, token, config, xbox, skewed, signing, crashes, excused>>

PollPending(p) ==
    /\ at[p] = "poll" /\ Corrects(p)
    /\ UNCHANGED <<now, token, at, config, xbox, skewed, wrong, crashes, history>>

Poll(p) ==
    /\ at[p] = "poll"
    /\ \/ /\ live' = [live EXCEPT ![p] = IssuedNow] /\ via' = [via EXCEPT ![p] = "poll"]
          /\ Goes(p, "save")
       \/ Fails(p) /\ UNCHANGED <<live, via>>
    /\ Corrects(p)
    /\ UNCHANGED <<now, cache, config, xbox, skewed, wrong, crashes, history>>

\* Mutant: the file is not closed before the program goes on.
SaveUnwritten(p) ==
    /\ at[p] = "save" /\ cache' = Torn /\ Goes(p, "device")
    /\ UNCHANGED <<now, live, via, config, xbox, skewed, signing, crashes, history>>

\* save_token: the file is emptied, and written.
Save(p) ==
    /\ at[p] = "save" /\ cache' = Torn /\ Goes(p, "write")
    /\ UNCHANGED <<now, live, via, config, xbox, skewed, signing, crashes, history>>

Write(p) ==
    /\ at[p] = "write" /\ cache' = live[p] /\ Goes(p, "device")
    /\ UNCHANGED <<now, live, via, config, xbox, skewed, signing, crashes, history>>

\* The token of a refresh that cannot be saved is given up, and the user asked.
SaveFails(p) ==
    /\ at[p] \in {"save", "write"}
    /\ IF via[p] = "refresh" THEN Goes(p, "ask") /\ excused' = TRUE
       ELSE Fails(p) /\ UNCHANGED excused
    /\ UNCHANGED <<now, token, config, xbox, skewed, signing, crashes, asked>>

-----------------------------------------------------------------------------
(* request_xbl_token.                                                      *)

\* The device types that are tried: the program's own, and the others.
Tries(p) == <<config[p]>> \o SelectSeq(Fallbacks, LAMBDA d : d # config[p])

After(p) == CASE party[p] = "realms" -> "realm"
              [] party[p] = "playfab" -> "discover"
              [] party[p] = "multiplayer" -> "chain"

\* Mutant: after the last attempt, the first.
TriesRound(p) ==
    /\ try' = [try EXCEPT ![p] = (@ % Len(Tries(p))) + 1] /\ Goes(p, "device")

\* The next attempt, or the error of the last.
TriesNext(p) ==
    IF try[p] < Len(Tries(p))
    THEN try' = [try EXCEPT ![p] = @ + 1] /\ Goes(p, "device")
    ELSE Goes(p, "refused") /\ UNCHANGED try

\* Signs with the time as the program knows it.
Signs(p) ==
    wrong' = [wrong EXCEPT ![p] = IF skewed /\ ~corrected[p] THEN @ + 1 ELSE @]

\* Mutant: a refusal does not set the clock.
DeviceRefusedDeaf(p) ==
    /\ at[p] = "device" /\ (try[p] > 1 \/ valid(live[p]))
    /\ Signs(p) /\ UNCHANGED corrected
    /\ TriesNext(p)
    /\ UNCHANGED <<now, token, config, party, skewed, crashes, history>>

\* _request_device_token_single.  The Live token is looked at before the first attempt.
\* A service can refuse a request that is signed with the wrong time.
DeviceRefused(p) ==
    /\ at[p] = "device" /\ (try[p] > 1 \/ valid(live[p]))
    /\ Signs(p) /\ Corrects(p)
    /\ TriesNext(p)
    /\ UNCHANGED <<now, token, config, party, skewed, crashes, history>>

DeviceGranted(p) ==
    /\ at[p] = "device" /\ (try[p] > 1 \/ valid(live[p]))
    /\ Signs(p) /\ Corrects(p) /\ Goes(p, "sisu")
    /\ UNCHANGED <<now, token, config, xbox, skewed, crashes, history>>

StaleToken(p) ==
    /\ at[p] = "device" /\ try[p] = 1 /\ ~valid(live[p]) /\ Fails(p)
    /\ UNCHANGED <<now, token, config, xbox, skewed, signing, crashes, history>>

\* _sisu_authorize: refused as an account, as a token, or as too many requests.
SisuRefused(p) ==
    /\ at[p] = "sisu" /\ Signs(p) /\ Corrects(p) /\ TriesNext(p)
    /\ UNCHANGED <<now, token, config, party, skewed, crashes, history>>

SisuGranted(p) ==
    /\ at[p] = "sisu" /\ Signs(p) /\ Corrects(p) /\ Goes(p, After(p))
    /\ UNCHANGED <<now, token, config, xbox, skewed, crashes, history>>

-----------------------------------------------------------------------------
(* The Realm, the services and the login chain.                            *)

\* Starts request_xbl_token for another party.
Requests(p, for) ==
    /\ Goes(p, "device")
    /\ party' = [party EXCEPT ![p] = for] /\ try' = [try EXCEPT ![p] = 1]

Request == {"realm", "discover", "ticket", "service", "session", "chain"}

\* One request: the next step, when it is answered.
Asks(p, from, to) ==
    /\ at[p] = from /\ Goes(p, to)
    /\ UNCHANGED <<now, token, config, xbox, skewed, signing, crashes, history>>

GetRealm(p) == Asks(p, "realm", "address")
Discover(p) == Asks(p, "discover", "ticket")
LoginWithXbox(p) == Asks(p, "ticket", "service")
RequestServiceToken(p) == Asks(p, "service", "session")
RequestMinecraftChain(p) == Asks(p, "chain", "done")

\* request_multiplayer_token; what is left is the login chain.
RequestMultiplayerToken(p) ==
    /\ at[p] = "session" /\ Requests(p, "multiplayer")
    /\ UNCHANGED <<now, token, config, skewed, signing, crashes, history>>

Call(p) ==
    \/ GetRealm(p) \/ Discover(p) \/ LoginWithXbox(p) \/ RequestServiceToken(p)
    \/ RequestMultiplayerToken(p) \/ RequestMinecraftChain(p)

\* Realm.address; the Realm says which network it is on.
Address(p) ==
    /\ at[p] = "address"
    /\ \E for \in {"playfab", "multiplayer"} : Requests(p, for)
    /\ UNCHANGED <<now, token, config, skewed, signing, crashes, history>>

\* 503: the Realm is starting, and is asked again after three seconds.
RealmStarts(p) ==
    /\ at[p] = "address" /\ Goes(p, "starting")
    /\ UNCHANGED <<now, token, config, xbox, skewed, signing, crashes, history>>

RealmWaits(p) ==
    /\ at[p] = "starting" /\ Goes(p, "address")
    /\ UNCHANGED <<now, token, config, xbox, skewed, signing, crashes, history>>

\* Any other error of a request, and an error of the network, ends the program.
RequestFails(p) ==
    /\ at[p] \in {"device", "sisu", "address"} \cup Request /\ Fails(p)
    /\ UNCHANGED <<now, token, config, xbox, skewed, signing, crashes, history>>

-----------------------------------------------------------------------------

Crash(p) ==
    /\ crashes < CrashBound /\ at[p] \notin Ended
    /\ crashes' = crashes + 1
    /\ Goes(p, "load")
    /\ live' = [live EXCEPT ![p] = NoFile] /\ via' = [via EXCEPT ![p] = "none"]
    /\ party' = [party EXCEPT ![p] = "realms"] /\ try' = [try EXCEPT ![p] = 1]
    /\ corrected' = [corrected EXCEPT ![p] = FALSE] /\ wrong' = [wrong EXCEPT ![p] = 0]
    /\ UNCHANGED <<now, cache, config, skewed, asked, excused>>

Tick ==
    /\ now < TimeBound /\ now' = now + 1
    /\ UNCHANGED <<token, at, config, xbox, skewed, signing, crashes, history>>

\* The steps that a program takes, or that the answer to its request makes it take.
Step(p) ==
    \/ Load(p) \/ Refresh(p) \/ Ask(p) \/ Poll(p) \/ Save(p) \/ Write(p) \/ SaveFails(p)
    \/ DeviceRefused(p) \/ DeviceGranted(p) \/ StaleToken(p)
    \/ SisuRefused(p) \/ SisuGranted(p)
    \/ Call(p) \/ Address(p) \/ RealmStarts(p) \/ RealmWaits(p) \/ RequestFails(p)

Next == Tick \/ \E p \in Program : Step(p) \/ PollPending(p) \/ Crash(p)

Spec == Init /\ [][Next]_vars

FairSpec == Spec /\ \A p \in Program : WF_vars(Step(p))

-----------------------------------------------------------------------------
(* Properties.                                                             *)

At == Ended \cup {"load", "refresh", "ask", "poll", "save", "write", "device", "sisu",
                  "address", "starting"} \cup Request

\* Types of the variables.
TypeOK ==
    /\ now \in 0..TimeBound /\ cache \in {NoFile, Torn} \cup Nat
    /\ at \in [Program -> At] /\ config \in [Program -> Config]
    /\ live \in [Program -> {NoFile} \cup Nat] /\ via \in [Program -> {"none", "refresh", "poll"}]
    /\ party \in [Program -> {"realms", "playfab", "multiplayer"}]
    /\ try \in [Program -> 1..4]
    /\ skewed \in BOOLEAN /\ corrected \in [Program -> BOOLEAN] /\ wrong \in [Program -> Nat]
    /\ crashes \in 0..CrashBound /\ asked \subseteq Program /\ excused \in BOOLEAN

\* A user who has signed in before signs in by hand again only when the service did not
\* renew the token, the new one could not be saved, a program was ended, or looked at
\* the file while another one wrote it.
AskedForCause == asked # {} => excused \/ crashes > 0

\* On a machine whose clock is wrong one request at most is signed with the wrong time,
\* whether or not the program began with a request for a Live token.
WrongTimeOnce == \A p \in Program : wrong[p] <= 1

\* Every sign-in ends, unless the Realm goes on starting for ever.
SignInEnds ==
    \A p \in Program : <>(at[p] \in Ended) \/ []<>(at[p] = "starting")
=============================================================================
