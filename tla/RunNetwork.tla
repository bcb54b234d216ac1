----------------------------- MODULE RunNetwork -----------------------------
(***************************************************************************)
(* The network identity of runs and accounts (_build_run_inputs of         *)
(* src/team_protocol/task_queue.py, the identity transactions of           *)
(* database.py, _resolve_account_network of workflow.py): a run freezes    *)
(* the proxies of its two accounts on its first execution, an account      *)
(* keeps the fingerprint and the OpenBrowser profile it first got, in      *)
(* every run it takes part in. Two runs: "a" hands over to "b", then "b"   *)
(* to "c". Users edit proxies, the profile pool and the tool chain.        *)
(***************************************************************************)
EXTENDS Naturals, FiniteSets

CONSTANTS
  Proxies, StaticProxies,   \* proxy addresses, and those without a place for an SID
  MaxProfiles,              \* the configured profiles are 1..MaxProfiles, in this order
  MaxEdits, MaxNetFaults    \* bound the users' edits, and crashes and errors

ASSUME NetworkAssumption ==
  /\ StaticProxies \subseteq Proxies /\ "unset" \notin Proxies
  /\ MaxProfiles \in Nat /\ MaxEdits \in Nat /\ MaxNetFaults \in Nat

Children3 == {"a", "b", "c"}
Roles == {"current", "next"}
\* The account a role stands for in the first and in the second run.
AccountIn(n, role) ==
  IF n = 1 THEN IF role = "current" THEN "a" ELSE "b"
           ELSE IF role = "current" THEN "b" ELSE "c"

Unset == "unset"
Direct == "direct"
NoPrint == 0
OldPrint == 1               \* the fingerprint in the checkpoint of a run of an older version
NoProfile == 0
Lowest(S) == CHOOSE n \in S : \A m \in S : n <= m

VARIABLES
  template,                 \* the global proxy setting
  override,                 \* accounts.proxy_blob
  sid,                      \* accounts with a runtime identity
  print, tools,             \* its fingerprint, its tool chain
  profileOf,                \* its OpenBrowser profile
  pool, toolchain,          \* the configured profiles, the installed browser
  nrun, nstate,             \* which run, and its state
  runProxy, snapshot,       \* runs.proxy_blob, runs.account_proxy_snapshot_blob
  loginsSaved,              \* the roles with a login in the checkpoint
  npc, inputs, prints,      \* the runner: place, proxies, fingerprints
  proxiesUsed, printsUsed,  \* history: by run and role, by account
  edits, netFaults

settings == <<template, override, pool, toolchain, edits>>
identities == <<sid, print, tools, profileOf>>
frozen == <<nrun, runProxy, snapshot, loginsSaved>>
runnerNet == <<nstate, npc, inputs, prints>>
historyNet == <<proxiesUsed, printsUsed>>
netVars == <<settings, identities, frozen, runnerNet, historyNet, netFaults>>

NoInputs == [r \in Roles |-> Unset]
NoPrints == [r \in Roles |-> NoPrint]
NoSnapshot == [r \in Roles |-> [proxy |-> Unset, source |-> Unset]]

\* Either everything is new, or the first run was begun by an older version
\* that kept one proxy and one profile in the run.
NetInit ==
  /\ template \in Proxies \cup {Direct}
  /\ \E a \in Children3, p \in {Unset} \cup Proxies :
       override = [c \in Children3 |-> IF c = a THEN p ELSE Unset]
  /\ sid = {} /\ print = [a \in Children3 |-> NoPrint] /\ tools = [a \in Children3 |-> 0]
  /\ profileOf = [a \in Children3 |-> NoProfile] /\ pool = 1..MaxProfiles /\ toolchain = 1
  /\ nrun = 1 /\ nstate = "queued" /\ snapshot = NoSnapshot
  /\ \/ runProxy = Unset /\ loginsSaved = {}
     \/ runProxy = template /\ loginsSaved = {"current"}
  /\ npc = "off" /\ inputs = NoInputs /\ prints = NoPrints
  /\ proxiesUsed = [n \in 1..2 |-> [r \in Roles |-> {}]]
  /\ printsUsed = [a \in Children3 |-> {}]
  /\ edits = 0 /\ netFaults = 0

Here(role) == AccountIn(nrun, role)
-----------------------------------------------------------------------------
(* Users. *)

EditSettings ==
  /\ edits < MaxEdits /\ edits' = edits + 1
  /\ \/ template' \in (Proxies \cup {Direct}) \ {template} /\ UNCHANGED <<override, pool, toolchain>>
     \/ /\ \E a \in Children3, p \in Proxies \cup {Unset} : override' = [override EXCEPT ![a] = p]
        /\ UNCHANGED <<template, pool, toolchain>>
     \/ \E p \in pool : pool' = pool \ {p} /\ UNCHANGED <<template, override, toolchain>>
     \/ toolchain' = toolchain + 1 /\ UNCHANGED <<template, override, pool>>
  /\ UNCHANGED <<identities, frozen, runnerNet, historyNet, netFaults>>

BoundProfiles == {profileOf[a] : a \in Children3}

FreeProfiles == pool \ BoundProfiles

\* The console prepares the next child of the run: an account that has a
\* profile keeps it, another gets the first free one.
ReserveProfile ==
  /\ nstate \in {"queued", "failed"}
  /\ profileOf[Here("next")] = NoProfile /\ FreeProfiles # {}
  /\ profileOf' = [profileOf EXCEPT ![Here("next")] = Lowest(FreeProfiles)]
  /\ sid' = sid \cup {Here("next")}
  /\ UNCHANGED <<settings, print, tools, frozen, runnerNet, historyNet, netFaults>>
-----------------------------------------------------------------------------
(* The run. *)

NetGoto(place) == npc' = place /\ UNCHANGED nstate
NetGone == npc' = "off" /\ inputs' = NoInputs /\ prints' = NoPrints

NetBegin ==
  /\ nstate = "queued" /\ nstate' = "running" /\ npc' = "proxy"
  /\ UNCHANGED <<settings, identities, frozen, inputs, prints, historyNet, netFaults>>

NetFails ==
  /\ nstate' = "failed" /\ NetGone
  /\ UNCHANGED <<settings, identities, frozen, historyNet>>

NetFault ==
  /\ nstate = "running" /\ netFaults < MaxNetFaults /\ netFaults' = netFaults + 1
  /\ \/ NetFails
     \/ /\ nstate' = "queued" /\ NetGone      \* the process dies
        /\ UNCHANGED <<settings, identities, frozen, historyNet>>

NetRetry ==
  /\ nstate = "failed" /\ nstate' = "queued"
  /\ UNCHANGED <<settings, identities, frozen, npc, inputs, prints, historyNet, netFaults>>

\* The run's own proxy, from the global setting, once.
SetRunProxy ==
  /\ npc = "proxy" /\ runProxy = Unset
  /\ runProxy' = template /\ NetGoto("snapshot")
  /\ UNCHANGED <<settings, identities, nrun, snapshot, loginsSaved, inputs, prints, historyNet, netFaults>>

Entry(role, own) ==
  IF own # Unset THEN [proxy |-> own, source |-> "account"]
  ELSE IF runProxy # Direct THEN [proxy |-> runProxy, source |-> "global"]
  ELSE [proxy |-> Direct, source |-> "direct"]

\* The snapshot of both accounts' proxies, once. A run that had a proxy before
\* this execution is taken for one of an older version, which knew no proxies
\* of accounts.
TakeSnapshot(hadRunProxy) ==
  IF snapshot # NoSnapshot THEN UNCHANGED snapshot
  ELSE snapshot' = [r \in Roles |-> Entry(r, IF hadRunProxy THEN Unset ELSE override[Here(r)])]

SetSnapshot ==
  /\ \/ npc = "proxy" /\ runProxy # Unset /\ TakeSnapshot(TRUE)
     \/ npc = "snapshot" /\ TakeSnapshot(FALSE)
  /\ NetGoto("identity")
  /\ UNCHANGED <<settings, identities, nrun, runProxy, loginsSaved, inputs, prints, historyNet, netFaults>>

\* Each account gets an SID if it has none: two transactions.
EnsureIdentity ==
  /\ npc \in {"identity", "identity2"}
  /\ sid' = sid \cup {Here(IF npc = "identity" THEN "current" ELSE "next")}
  /\ NetGoto(IF npc = "identity" THEN "identity2" ELSE "inputs")
  /\ UNCHANGED <<settings, print, tools, profileOf, frozen, inputs, prints, historyNet, netFaults>>

FromOlderVersion(role) ==
  print[Here(role)] = NoPrint /\ role \in loginsSaved

\* A global proxy needs a place for the SID, unless the run has logged in
\* through it already.
Bindable(role) ==
  snapshot[role].source = "global" => snapshot[role].proxy \notin StaticProxies

BuildInputs ==
  /\ npc = "inputs"
  /\ IF \/ profileOf[Here("next")] \notin pool
        \/ loginsSaved = {} /\ \E r \in Roles : ~Bindable(r)
       THEN NetFails
       ELSE /\ inputs' = [r \in Roles |->
                 IF FromOlderVersion(r) \/ ~Bindable(r) THEN runProxy ELSE snapshot[r].proxy]
            /\ NetGoto("resolve")
            /\ UNCHANGED <<settings, identities, frozen, prints, historyNet>>
  /\ UNCHANGED netFaults

\* Fingerprints are random: a new one was never seen.
NewPrint ==
  Lowest((2..9) \ UNION ({{print[a]} \cup printsUsed[a] : a \in Children3}
                         \cup {{prints[r]} : r \in Roles}))

\* Mutant: a fingerprint is made for every run.
NewPrintFor(role) == NewPrint

\* The fingerprint a runner works with: the stored one, that of the older
\* version, or a new one.
PrintFor(role) ==
  IF print[Here(role)] # NoPrint THEN print[Here(role)]
  ELSE IF FromOlderVersion(role) THEN OldPrint
  ELSE NewPrint

\* One role after the other: restore or generate, and store what is new.
ResolveNetwork ==
  /\ npc \in {"resolve", "resolve2"}
  /\ LET role == IF npc = "resolve" THEN "current" ELSE "next"
         a == Here(role)
     IN  IF print[a] # NoPrint /\ tools[a] # toolchain THEN NetFails
         ELSE /\ prints' = [prints EXCEPT ![role] = PrintFor(role)]
              /\ IF FromOlderVersion(role) THEN UNCHANGED <<print, tools>>
                 ELSE /\ print' = [print EXCEPT ![a] = IF @ = NoPrint THEN PrintFor(role) ELSE @]
                      /\ tools' = [tools EXCEPT ![a] = IF @ = 0 THEN toolchain ELSE @]
              /\ NetGoto(IF npc = "resolve" THEN "resolve2" ELSE "login")
              /\ UNCHANGED <<settings, sid, profileOf, frozen, inputs, historyNet>>
  /\ UNCHANGED netFaults

\* A login through the proxy, with the fingerprint, of the role's account.
NetLogin ==
  /\ npc \in {"login", "login2"}
  /\ LET role == IF npc = "login" THEN "current" ELSE "next"
         a == Here(role)
     IN  /\ loginsSaved' = loginsSaved \cup {role}
         /\ proxiesUsed' = [proxiesUsed EXCEPT ![nrun] = [proxiesUsed[nrun] EXCEPT ![role] = @ \cup {inputs[role]}]]
         /\ printsUsed' = [printsUsed EXCEPT ![a] = @ \cup {prints[role]}]
  /\ NetGoto(IF npc = "login" THEN "login2" ELSE "returned")
  /\ UNCHANGED <<settings, identities, nrun, runProxy, snapshot, inputs, prints, netFaults>>

\* The run succeeds; the next child is the current one of the second run.
NetFinish ==
  /\ npc = "returned" /\ NetGone
  /\ IF nrun = 1
       THEN /\ nrun' = 2 /\ nstate' = "queued"
            /\ runProxy' = Unset /\ snapshot' = NoSnapshot /\ loginsSaved' = {}
       ELSE nstate' = "succeeded" /\ UNCHANGED <<nrun, runProxy, snapshot, loginsSaved>>
  /\ UNCHANGED <<settings, identities, historyNet, netFaults>>

NetNext ==
  \/ EditSettings \/ ReserveProfile
  \/ NetBegin \/ NetFault \/ NetRetry
  \/ SetRunProxy \/ SetSnapshot \/ EnsureIdentity \/ BuildInputs \/ ResolveNetwork
  \/ NetLogin \/ NetFinish

NetSpec == NetInit /\ [][NetNext]_netVars
-----------------------------------------------------------------------------
(* Properties. *)

\* CHANGELOG.md: retries of a run keep its proxies, whatever is edited or
\* interrupted between its executions.
ProxiesStayFrozen ==
  \A n \in 1..2, r \in Roles : Cardinality(proxiesUsed[n][r]) <= 1

\* README.md: an account that is promoted from next to current keeps the
\* fingerprint of its first login, unless a run of an older version logged it in.
FingerprintsAreKept ==
  \A a \in Children3 : Cardinality(printsUsed[a] \ {OldPrint}) <= 1

\* README.md: a profile is bound to one account for good.
ProfilesAreExclusive ==
  \A a, b \in Children3 : a # b /\ profileOf[a] # NoProfile => profileOf[a] # profileOf[b]

\* The identity an account shows is kept over retries and rotations, and is its
\* own: proxies, fingerprint and browser profile.
IdentitiesAreKept == ProxiesStayFrozen /\ FingerprintsAreKept /\ ProfilesAreExclusive
=============================================================================
