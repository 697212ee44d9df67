------------------------------ MODULE AddPath ------------------------------
(***************************************************************************)
(* From a release named to the torrent client: `fetch_and_add`, its        *)
(* filters, the download and the client's own calls.                       *)
(*                                                                         *)
(* The IRC loop, Telegram's and Slack's are arms of one select!: each      *)
(* handles one message at a time, and they take turns at their awaits.     *)
(* The watcher thread is bound by no await: it may replace the options     *)
(* between two locks of one decision.                                      *)
(*                                                                         *)
(* A request and the reading of its answer are one step, since what others *)
(* do in between they may as well do before or after it; not so a login,   *)
(* whose answer may overtake another.                                      *)
(***************************************************************************)
EXTENDS Filters, FiniteSets

CONSTANTS
    Loops,      \* the arms that handle messages
    Reader,     \* the one that reads the announce channel
    Announces,  \* what may be announced or asked for
    Configs,    \* the rule sets options.toml may hold
    Clients     \* torrent clients that may be configured

ASSUME AddPathAssumption ==
    /\ Reader \in Loops
    /\ Announces \subseteq Announce /\ Configs \subseteq RuleSet
    /\ Clients \subseteq {"rTorrent", "qBittorrent"}

VARIABLES
    client,    \* the configured client
    options,   \* the rules in force
    job,       \* what each loop is doing, for which release, by whose wish
    read,      \* what it has read of the rules
    signedIn,  \* qBittorrent: the cookie in the jar names a live session
    issued,    \* ... as the one does that a login has just been answered with
    told,      \* the notification a loop's last release gave rise to
    inForce,   \* history: rules in force since a decision began
    taken,     \* history: the client took this loop's upload
    unheard,   \* history: ... and its answer was lost
    fresh      \* history: no session has ended since this loop signed in, nor
               \* since another did whose answer was then on its way

decisionVars == <<read, inForce>>
uploadVars   == <<taken, unheard>>
sessionVars  == <<signedIn, issued, fresh>>
vars == <<client, options, job, decisionVars, told, uploadVars, sessionVars>>

Nothing == [watch |-> {}, reject |-> {}, require |-> {}]

-----------------------------------------------------------------------------

Init ==
    /\ client \in Clients /\ options \in Configs
    /\ \E a \in Announces :
          job = [l \in Loops |-> [at |-> "idle", item |-> a, sound |-> TRUE]]
    /\ read = [l \in Loops |-> Nothing] /\ inForce = [l \in Loops |-> {}]
    /\ signedIn \in BOOLEAN /\ issued = [l \in Loops |-> FALSE]
    /\ fresh = [l \in Loops |-> FALSE] /\ told = [l \in Loops |-> "nothing"]
    /\ taken = [l \in Loops |-> FALSE] /\ unheard = [l \in Loops |-> FALSE]

At(l, where) == job[l].at = where
Goes(l, where) == job' = [job EXCEPT ![l].at = where]
Tells(l, what) == told' = [told EXCEPT ![l] = what]

\* A loop takes up a release: as an announcement, or for `addtorrent`, which
\* skips the filters.
Begin(l, a) ==
    /\ At(l, "idle")
    /\ \E where \in IF l = Reader THEN {"watches", "fetching"} ELSE {"fetching"} :
          job' = [job EXCEPT ![l] = [at |-> where, item |-> a, sound |-> TRUE]]
    /\ Tells(l, "nothing")
    /\ taken' = [taken EXCEPT ![l] = FALSE] /\ unheard' = [unheard EXCEPT ![l] = FALSE]
    /\ fresh' = [fresh EXCEPT ![l] = FALSE]
    /\ UNCHANGED <<client, options, decisionVars, signedIn, issued>>

\* do_we_want_this_torrent: four locks of the options, then `decide`.
ReadWatches(l) ==
    /\ At(l, "watches") /\ Goes(l, "rejects")
    /\ read' = [read EXCEPT ![l] = [Nothing EXCEPT !.watch = options.watch]]
    /\ inForce' = [inForce EXCEPT ![l] = {options}]
    /\ UNCHANGED <<client, options, told, uploadVars, sessionVars>>

ReadRejects(l) ==
    /\ At(l, "rejects") /\ Goes(l, "requires")
    /\ read' = [read EXCEPT ![l].reject = options.reject]
    /\ UNCHANGED <<client, options, inForce, told, uploadVars, sessionVars>>

ReadRequires(l) ==
    /\ At(l, "requires") /\ Goes(l, "filters")
    /\ read' = [read EXCEPT ![l].require = options.require]
    /\ UNCHANGED <<client, options, inForce, told, uploadVars, sessionVars>>

\* The warning on_warning asks for: a reject ate what an entry wanted.
Eaten(l, verdict) ==
    IF verdict = "rejected" /\ Matched(job[l].item, read[l].watch) # {}
    THEN "eaten" ELSE "nothing"

ReadFiltersAndDecide(l) ==
    /\ At(l, "filters")
    /\ LET verdict == Decide(job[l].item, read[l].watch, read[l].reject,
                             read[l].require, options.filters)
       IN  /\ Goes(l, IF verdict = "wanted" THEN "fetching" ELSE "idle")
           /\ Tells(l, Eaten(l, verdict))
    /\ read' = [read EXCEPT ![l] = Nothing] /\ inForce' = [inForce EXCEPT ![l] = {}]
    /\ UNCHANGED <<client, options, uploadVars, sessionVars>>

\* reload_options on the watcher thread.
EditOptions ==
    /\ \E c \in Configs \ {options} :
          /\ options' = c
          /\ inForce' = [l \in Loops |-> IF inForce[l] = {} THEN {} ELSE inForce[l] \cup {c}]
    /\ UNCHANGED <<client, job, read, told, uploadVars, sessionVars>>

-----------------------------------------------------------------------------

Settles(l, what) == Goes(l, "idle") /\ Tells(l, what)

\* The tracker answers with something the bot can parse (`sound`), with
\* something it cannot, or not well.
Fetch(l) ==
    /\ At(l, "fetching")
    /\ \/ /\ \E sound \in BOOLEAN :
                 job' = [job EXCEPT ![l].at = "uploading", ![l].sound = sound]
          /\ UNCHANGED told
       \/ Settles(l, "failed")
    /\ UNCHANGED <<client, options, decisionVars, uploadVars, sessionVars>>

\* What comes after the client took it: rTorrent's added time and tags, whose
\* failure is only logged.
Stored == IF client = "rTorrent" THEN "stamping" ELSE "idle"

\* Mutant of AfterLoss: a lost answer is taken for a lost session.
SignInAgain == "login"

\* An answer that never came: reported, not repeated.
AfterLoss == "idle"

\* The client takes it, or refuses it, as it may whatever it is (one it has
\* already, for one); its answer may be lost.
Upload(l) ==
    \/ /\ taken' = [taken EXCEPT ![l] = TRUE]
       /\ \/ /\ Goes(l, Stored) /\ UNCHANGED unheard
             /\ Tells(l, IF Stored = "idle" THEN "added" ELSE "nothing")
          \/ /\ Goes(l, AfterLoss) /\ Tells(l, "failed")
             /\ unheard' = [unheard EXCEPT ![l] = TRUE]
    \/ Settles(l, "failed") /\ UNCHANGED uploadVars

\* rTorrent: handed over before it is looked at.  What the bot cannot parse is
\* then a failure, whatever rTorrent answered.  qBittorrent: looked at first.
AddRtorrent(l) ==
    /\ At(l, "uploading") /\ client = "rTorrent"
    /\ IF job[l].sound THEN Upload(l)
       ELSE /\ Settles(l, "failed") /\ UNCHANGED unheard
            /\ taken' \in {taken, [taken EXCEPT ![l] = TRUE]}
    /\ UNCHANGED <<client, options, decisionVars, sessionVars>>

\* Mutant of Stamped: a time that could not be set fails the add.
StampedOrFailed == {"added", "failed"}

Stamped == {"added"}

Stamp(l) ==
    /\ At(l, "stamping")
    /\ \E what \in Stamped : Settles(l, what)
    /\ UNCHANGED <<client, options, decisionVars, uploadVars, sessionVars>>

AddQbittorrent(l) ==
    /\ At(l, "uploading") /\ client = "qBittorrent"
    /\ IF ~job[l].sound THEN Settles(l, "failed") /\ UNCHANGED uploadVars
       ELSE IF signedIn THEN Upload(l)
       ELSE Goes(l, "login") /\ UNCHANGED <<told, uploadVars>>
    /\ UNCHANGED <<client, options, decisionVars, sessionVars>>

\* The server opens a session; those it has opened before live on.
Login(l) ==
    /\ At(l, "login")
    /\ \/ /\ Goes(l, "keeping") /\ UNCHANGED told
          /\ issued' = [issued EXCEPT ![l] = TRUE]
          /\ fresh' = [fresh EXCEPT ![l] = \A k \in Loops : At(k, "keeping") => fresh[k]]
       \/ Settles(l, "failed") /\ UNCHANGED <<issued, fresh>>
    /\ UNCHANGED <<client, options, decisionVars, uploadVars, signedIn>>

\* The answer puts its cookie into the jar: the last one read wins.
KeepCookie(l) ==
    /\ At(l, "keeping") /\ Goes(l, "retrying")
    /\ signedIn' = issued[l]
    /\ issued' = [issued EXCEPT ![l] = FALSE]
    /\ UNCHANGED <<client, options, decisionVars, told, uploadVars, fresh>>

\* send_authed: the request once more, and only once.
Retry(l) ==
    /\ At(l, "retrying")
    /\ IF signedIn THEN Upload(l) ELSE Settles(l, "failed") /\ UNCHANGED uploadVars
    /\ UNCHANGED <<client, options, decisionVars, sessionVars>>

\* A listing or the completion poll meets the expired session first.
OthersSignIn ==
    /\ client = "qBittorrent" /\ ~signedIn
    /\ signedIn' = TRUE
    /\ UNCHANGED <<client, options, job, decisionVars, told, uploadVars, issued, fresh>>

\* The server restarts, or ends some of its sessions.
Expire ==
    /\ signedIn' \in {signedIn, FALSE}
    /\ \E ended \in SUBSET Loops :
          issued' = [l \in Loops |-> issued[l] /\ l \notin ended]
    /\ fresh' = [l \in Loops |-> FALSE]
    /\ UNCHANGED <<client, options, job, decisionVars, told, uploadVars>>

Decision(l) ==
    ReadWatches(l) \/ ReadRejects(l) \/ ReadRequires(l) \/ ReadFiltersAndDecide(l)

Next ==
    \/ \E l \in Loops :
          \/ \E a \in Announces : Begin(l, a)
          \/ Decision(l)
          \/ Fetch(l) \/ AddRtorrent(l) \/ Stamp(l)
          \/ AddQbittorrent(l) \/ Login(l) \/ KeepCookie(l) \/ Retry(l)
    \/ EditOptions \/ OthersSignIn \/ Expire

Spec == Init /\ [][Next]_vars

-----------------------------------------------------------------------------
\* Properties.

Places == {"idle", "watches", "rejects", "requires", "filters", "fetching", "uploading",
           "stamping", "login", "keeping", "retrying"}

\* Every variable stays in its type.
TypeOK ==
    /\ client \in Clients /\ options \in Configs
    /\ job \in [Loops -> [at : Places, item : Announces, sound : BOOLEAN]]
    /\ read \in [Loops -> [watch : SUBSET Watch, reject : SUBSET Patterns,
                           require : SUBSET Fields]]
    /\ inForce \in [Loops -> SUBSET Configs]
    /\ signedIn \in BOOLEAN /\ issued \in [Loops -> BOOLEAN]
    /\ fresh \in [Loops -> BOOLEAN]
    /\ told \in [Loops -> {"nothing", "eaten", "added", "failed"}]
    /\ taken \in [Loops -> BOOLEAN] /\ unheard \in [Loops -> BOOLEAN]

Decides(l) == At(l, "filters") /\ (job[l].at)' # "filters"
Takes(l)   == (job[l].at)' = "fetching"

\* An announcement is taken exactly when the rules as documented want it.
\* An edit in the middle of the decision may mix two files; even then an
\* entry of some file matched and some file's reject list let it through.
DecisionsFollowRules ==
    [][\A l \in Loops : Decides(l) =>
          /\ \A c \in Configs : inForce[l] = {c} => (Takes(l) <=> Wanted(job[l].item, c))
          /\ Takes(l) => /\ \E c \in inForce[l] : Matched(job[l].item, c.watch) # {}
                         /\ \E c \in inForce[l] : ~Rejected(job[l].item, c.reject)]_vars

\* Loaded into rTorrent before the bot found that it cannot parse it.
Unparsed(l) == client = "rTorrent" /\ ~job[l].sound

\* "Added" is told only of what the client took; "failed" of nothing it took,
\* unless its answer was lost or the bot cannot parse what rTorrent may have
\* loaded: no cosmetic failure, no expired session and no other loop's upload
\* makes a false report.
ReportsAreTrue ==
    \A l \in Loops :
        /\ told[l] = "added" => taken[l]
        /\ told[l] = "failed" => ~taken[l] \/ unheard[l] \/ Unparsed(l)

\* The repeat of a request never repeats what was done, and loops that sign
\* in at once do not lock each other out: whichever cookie is in the jar, the
\* repeat carries a session that lives, unless the server has ended one since.
RepeatIsSafe ==
    \A l \in Loops : At(l, "retrying") => ~taken[l] /\ (fresh[l] => signedIn)
=============================================================================
