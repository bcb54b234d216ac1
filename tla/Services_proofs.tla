--------------------------- MODULE Services_proofs ---------------------------
(***************************************************************************)
(* Proofs about the services around the workflows, each for any number of  *)
(* threads and of whatever it keeps: the aliases of a mailbox, the capture *)
(* of its session, the proxy chains, the identities of accounts, the login *)
(* of a child.                                                             *)
(***************************************************************************)
EXTENDS Aliases, HmeCapture, ProxyChains, ChainRelay, RunNetwork, Login, WellFoundedInduction,
        FiniteSetTheorems, TLAPS

(***************************************************************************)
(* The aliases of a mailbox.                                               *)
(***************************************************************************)
AliasTyped ==
  /\ AliasTypeOK
  /\ opAt \in {"off", "settings", "create", "store"}
  /\ listing \in [AliasIds -> {"none", "active", "inactive"}]
  /\ click \in [Clickers -> [at : {"idle", "read", "enqueue"}, version : Nat]]
  /\ toggle \in [Togglers -> [at : {"idle", "remote", "local", "account"},
                              alias : AliasIds \cup {NoAlias}, to : {"active", "inactive"},
                              moves : BOOLEAN, with : Nat]]
  /\ aliasFaults \in Nat

\* What an operation under the lock holds: an alias it has created belongs to
\* nobody else until it is stored or undone.
InHandIsNew ==
  /\ inHand # NoAlias => opAt = "store" /\ Creating
  /\ opAt = "store" /\ Creating =>
       inHand \in AliasIds /\ row[inHand] = "none" /\ hme[inHand] # "none"

RowsAreAtApple ==
  \A a \in AliasIds :
    /\ row[a] # "none" => hme[a] # "none"
    /\ listing[a] # "none" => hme[a] # "none"

\* The current child of the workspace is known.
CurrentIsStored == curAlias # NoAlias => row[curAlias] # "none"

Toggling(t, a) == toggle[t].at # "idle" /\ toggle[t].alias = a

\* What a thread that switches an alias has seen of it stays true, unless
\* something else changes the alias or its account.
SawIt(t) ==
  LET a == toggle[t].alias IN
  /\ a \in AliasIds /\ row[a] # "none"
  /\ \A u \in Togglers \ {t} : Toggling(u, a) => a \in crossed
  /\ a \notin crossed =>
       /\ child3[a] # "bound"
       /\ toggle[t].to = "inactive" /\ toggle[t].at \in {"remote", "local"} /\ ~toggle[t].moves
            => child3[a] # "available"
       /\ toggle[t].to = "active" /\ toggle[t].at = "account" => row[a] = "active"

TogglersSawIt == \A t \in Togglers : toggle[t].at # "idle" => SawIt(t)

AliasInv == /\ AliasTyped /\ InHandIsNew /\ RowsAreAtApple /\ CurrentIsStored
            /\ TogglersSawIt /\ AliasesAgree

Toggles == [at : {"idle", "remote", "local", "account"}, alias : AliasIds \cup {NoAlias},
            to : {"active", "inactive"}, moves : BOOLEAN, with : Nat]

Clicks == [at : {"idle", "read", "enqueue"}, version : Nat]

LEMMA ClickEntries == Idle \in Clicks /\ [at |-> "enqueue", version |-> 0] \in Clicks
BY DEF Idle, Clicks

\* What the steps of a thread that switches an alias write is such an entry.
LEMMA ToggleEntries ==
  ASSUME AliasTyped, NEW t \in Togglers
  PROVE  /\ toggle[t] \in Toggles /\ NoToggle \in Toggles
         /\ [toggle[t] EXCEPT !.at = "account"] \in Toggles
         /\ [toggle[t] EXCEPT !.at = "local", !.with = 0] \in Toggles
BY DEF AliasTyped, Toggles, NoToggle, NoAlias

LEMMA RemoteStep ==
  ASSUME AliasTyped, NEW t \in Togglers, ToggleRemote(t)
  PROVE  /\ toggle[t].at = "remote"
         /\ \E e \in Toggles :
              /\ toggle' = [toggle EXCEPT ![t] = e]
              /\ \/ e.at = "idle"
                 \/ /\ e.at = "local" /\ e.alias = toggle[t].alias
                    /\ e.to = toggle[t].to /\ e.moves = toggle[t].moves
<1>1. toggle[t].at = "remote"
  BY DEF ToggleRemote
<1>2. CASE toggle' = [toggle EXCEPT ![t] = [@ EXCEPT !.at = "local", !.with = 0]]
  <2>1. toggle[t] \in Toggles /\ [toggle[t] EXCEPT !.at = "local", !.with = 0] \in Toggles
    BY ToggleEntries
  <2>2. /\ [toggle[t] EXCEPT !.at = "local", !.with = 0].at = "local"
        /\ [toggle[t] EXCEPT !.at = "local", !.with = 0].alias = toggle[t].alias
        /\ [toggle[t] EXCEPT !.at = "local", !.with = 0].to = toggle[t].to
        /\ [toggle[t] EXCEPT !.at = "local", !.with = 0].moves = toggle[t].moves
    BY <2>1 DEF Toggles
  <2>3. toggle' = [toggle EXCEPT ![t] = [toggle[t] EXCEPT !.at = "local", !.with = 0]]
    BY <1>2
  <2> QED
    BY <1>1, <2>1, <2>2, <2>3
<1>3. CASE toggle' = [toggle EXCEPT ![t] = NoToggle]
  BY <1>1, <1>3, ToggleEntries DEF NoToggle
<1> QED
  BY <1>2, <1>3 DEF ToggleRemote

-----------------------------------------------------------------------------
(* What else becomes of the accounts.                                      *)

WorkspaceMoves ==
  \/ Rotate3
  \/ \E cur, nxt \in AliasIds \cup {NoAlias} : UpdateBindings3(cur, nxt)
  \/ \E role \in {"current", "next"}, c \in FailureCodes3 : ReplaceChild(role, c)
  \/ \E a \in AliasIds, new \in {"available", "disabled", "retired"} :
       TransitionAccountStatus3(a, new)

\* What an edit of the workspace, a rotation, a replacement or a change of a
\* status does to the aliases: nothing at Apple, no row comes or goes, and an
\* alias that is being switched is left alone or crossed.
WorkspaceKeeps ==
  /\ UNCHANGED <<secret, rejected, hme, parented, opVars, click, toggle, abandoned,
                aliasFaults>>
  /\ ready' \in BOOLEAN /\ wsVersion' \in Nat
  /\ {curAlias', nextAlias'} \subseteq AliasIds \cup {NoAlias}
  /\ row' \in [AliasIds -> {"none", "active", "inactive"}]
  /\ child3' \in [AliasIds -> {"none", "available", "disabled", "bound", "retired"}]
  /\ \A a \in AliasIds : /\ row'[a] = "none" <=> row[a] = "none"
                         /\ child3'[a] = "none" <=> row[a] = "none"
  /\ crossed \subseteq crossed' /\ crossed' \subseteq AliasIds /\ apart' \subseteq AliasIds
  /\ \A a \in AliasIds : Switching(a) /\ a \notin crossed'
                           => row'[a] = row[a] /\ child3'[a] = child3[a]
  /\ CurrentIsStored' /\ AccountsFollowAliases'

LEMMA NoAliasIsNone == NoAlias \notin AliasIds
BY AliasesAssumption DEF NoAlias, AliasIds

LEMMA RotateKeeps ==
  ASSUME AliasTyped, CurrentIsStored, TogglersSawIt, AccountsFollowAliases, Rotate3
  PROVE  WorkspaceKeeps
<1> USE AliasesAssumption DEF NoAlias
<1>1. /\ UNCHANGED <<mailVars, hme, row, parented, opVars, apiVars, abandoned, aliasFaults>>
      /\ nextAlias # NoAlias /\ curAlias' = nextAlias /\ nextAlias' = NoAlias
      /\ wsVersion' = wsVersion + 1
      /\ child3' = [a \in AliasIds |-> IF a = curAlias THEN "retired" ELSE child3[a]]
      /\ child3[nextAlias] = "bound" /\ nextAlias \in AliasIds
      /\ curAlias # NoAlias => child3[curAlias] = "bound"
  BY DEF Rotate3, Named3, AliasTyped, AliasTypeOK
<1>2. /\ UNCHANGED <<secret, rejected, hme, parented, opVars, click, toggle, abandoned,
                      aliasFaults>>
      /\ ready' \in BOOLEAN /\ wsVersion' \in Nat /\ UNCHANGED <<row, crossed, apart, toggle>>
      /\ {curAlias', nextAlias'} \subseteq AliasIds \cup {NoAlias}
      /\ row' \in [AliasIds -> {"none", "active", "inactive"}]
      /\ crossed \subseteq crossed' /\ crossed' \subseteq AliasIds /\ apart' \subseteq AliasIds
  BY <1>1 DEF mailVars, apiVars, toggleVars, AliasTyped, AliasTypeOK
<1>3. child3' \in [AliasIds -> {"none", "available", "disabled", "bound", "retired"}]
  BY <1>1 DEF AliasTyped, AliasTypeOK
<1>4. \A a \in AliasIds : /\ row'[a] = "none" <=> row[a] = "none"
                          /\ child3'[a] = "none" <=> row[a] = "none"
  BY <1>1, <1>2, NoAliasIsNone DEF AliasTyped, AliasTypeOK
<1>5. ASSUME NEW a \in AliasIds, Switching(a), a \notin crossed'
      PROVE  a # curAlias
  <2>1. child3[a] # "bound"
    BY <1>2, <1>5 DEF Switching, TogglersSawIt, SawIt
  <2> QED
    BY <1>1, <2>1, NoAliasIsNone
<1>6. CurrentIsStored'
  BY <1>1, <1>2 DEF CurrentIsStored, AliasTyped, AliasTypeOK
<1>7. AccountsFollowAliases'
  BY <1>1, <1>2 DEF AccountsFollowAliases
<1> QED
  BY <1>1, <1>2, <1>3, <1>4, <1>5, <1>6, <1>7 DEF WorkspaceKeeps

LEMMA UpdateBindingsKeep ==
  ASSUME AliasTyped, CurrentIsStored, TogglersSawIt, AccountsFollowAliases,
         NEW cur \in AliasIds \cup {NoAlias}, NEW nxt \in AliasIds \cup {NoAlias},
         UpdateBindings3(cur, nxt)
  PROVE  WorkspaceKeeps
<1> USE AliasesAssumption DEF NoAlias
<1> DEFINE old == Named3({curAlias, nextAlias})
           new == Named3({cur, nxt})
<1>1. /\ UNCHANGED <<mailVars, hme, row, parented, opVars, click, toggle, apart,
                      abandoned, aliasFaults>>
      /\ curAlias' = cur /\ nextAlias' = nxt /\ wsVersion' = wsVersion + 1
      /\ \A a \in new : row[a] = "active"
      /\ child3' = [a \in AliasIds |->
                      IF a \in new THEN "bound"
                      ELSE IF a \in old /\ child3[a] = "bound" THEN "available"
                      ELSE child3[a]]
      /\ crossed' = CrossedBy(new)
  BY DEF UpdateBindings3
<1>2. /\ new \subseteq AliasIds /\ old \subseteq AliasIds
      /\ \A a : a \in new <=> (a # NoAlias /\ a \in {cur, nxt})
      /\ \A a : a \in old <=> (a # NoAlias /\ a \in {curAlias, nextAlias})
  BY DEF Named3, AliasTyped, AliasTypeOK
<1>3. /\ crossed' = crossed \cup {a \in new : Switching(a)}
      /\ crossed \subseteq crossed' /\ crossed' \subseteq AliasIds
  BY <1>1, <1>2 DEF CrossedBy, Named3, AliasTyped, AliasTypeOK
<1> HIDE DEF old, new
<1>4. /\ UNCHANGED <<secret, rejected, hme, parented, opVars, click, toggle, abandoned,
                      aliasFaults>>
      /\ ready' \in BOOLEAN /\ wsVersion' \in Nat /\ UNCHANGED <<row, apart>>
      /\ {curAlias', nextAlias'} \subseteq AliasIds \cup {NoAlias}
      /\ row' \in [AliasIds -> {"none", "active", "inactive"}] /\ apart' \subseteq AliasIds
  BY <1>1 DEF mailVars, AliasTyped, AliasTypeOK
<1>5. child3' \in [AliasIds -> {"none", "available", "disabled", "bound", "retired"}]
  BY <1>1 DEF AliasTyped, AliasTypeOK
<1>6. \A a \in AliasIds : /\ row'[a] = "none" <=> row[a] = "none"
                          /\ child3'[a] = "none" <=> row[a] = "none"
  BY <1>1, <1>2, <1>4 DEF AliasTyped, AliasTypeOK
<1>7. ASSUME NEW a \in AliasIds, Switching(a), a \notin crossed'
      PROVE  row'[a] = row[a] /\ child3'[a] = child3[a]
  <2>1. a \notin new
    BY <1>3, <1>7
  <2>2. child3[a] # "bound"
    BY <1>3, <1>7 DEF Switching, TogglersSawIt, SawIt
  <2> QED
    BY <1>1, <1>4, <2>1, <2>2
<1>8. CurrentIsStored'
  <2>1. curAlias' # NoAlias => row[curAlias'] = "active"
    BY <1>1, <1>2
  <2> QED
    BY <1>4, <2>1 DEF CurrentIsStored
<1>9. AccountsFollowAliases'
  <2>1. nextAlias' # NoAlias => child3'[nextAlias'] = "bound"
    <3>1. nextAlias' # NoAlias => nextAlias' \in new /\ nextAlias' \in AliasIds
      BY <1>1, <1>2
    <3> QED
      BY <1>1, <3>1
  <2>2. ASSUME NEW a \in AliasIds, child3'[a] = "bound"
        PROVE  a \in {curAlias', nextAlias'} /\ (row'[a] = "active" \/ a \in crossed')
    <3>1. CASE a \in new
      BY <1>1, <1>2, <1>4, <3>1
    <3>2. CASE a \notin new
      <4>1. child3[a] = "bound" /\ a \notin old
        BY <1>1, <2>2, <3>2
      <4> QED
        BY <1>2, <4>1, NoAliasIsNone DEF AccountsFollowAliases
    <3> QED
      BY <3>1, <3>2
  <2>3. ASSUME NEW a \in AliasIds, child3'[a] = "available", row'[a] = "inactive"
        PROVE  \/ a \in apart' \cup crossed'
               \/ \E t \in Togglers : toggle'[t].at = "account" /\ toggle'[t].alias = a
    BY <1>1, <1>2, <1>3, <1>4, <2>3 DEF AccountsFollowAliases
  <2> QED
    BY <2>1, <2>2, <2>3 DEF AccountsFollowAliases
<1> QED
  BY <1>3, <1>4, <1>5, <1>6, <1>7, <1>8, <1>9 DEF WorkspaceKeeps

LEMMA ReplaceKeeps ==
  ASSUME AliasTyped, CurrentIsStored, TogglersSawIt, AccountsFollowAliases,
         NEW role \in {"current", "next"}, NEW failure3 \in FailureCodes3,
         ReplaceChild(role, failure3)
  PROVE  WorkspaceKeeps
<1> USE AliasesAssumption DEF NoAlias
<1> DEFINE target == IF role = "current" THEN curAlias ELSE nextAlias
           noMail == failure3 = "mailbox_credentials_invalid" /\ target # NoAlias
           lost   == Named3(IF role = "current" /\ noMail THEN {target, nextAlias} ELSE {target})
<1>1. /\ role = "next" => nextAlias # NoAlias
      /\ \E pair \in Replacements(role, lost, ready /\ ~noMail) :
           /\ pair[2] # NoAlias => pair[2] # pair[1]
           /\ curAlias' = pair[1] /\ nextAlias' = pair[2]
           /\ child3' = [a \in AliasIds |->
                           IF a \in lost THEN "disabled"
                           ELSE IF a = pair[2] \/ (a = pair[1] /\ role = "current")
                             THEN "bound" ELSE child3[a]]
           /\ crossed' = CrossedBy(lost \cup {pair[1], pair[2]})
      /\ ready' = (ready /\ ~noMail)
      /\ row' = [a \in AliasIds |-> IF failure3 = "alias_disabled" /\ a \in lost
                                      THEN "inactive" ELSE row[a]]
      /\ wsVersion' = wsVersion + 1
      /\ UNCHANGED <<secret, rejected, hme, parented, opVars, click, toggle, apart,
                     abandoned, aliasFaults>>
  BY DEF ReplaceChild
<1>2. /\ \A a \in lost : a \in AliasIds /\ a \in {curAlias, nextAlias} /\ a # NoAlias
      /\ role = "next" => nextAlias \in lost
      /\ role = "current" => curAlias \in lost \cup {NoAlias}
  BY <1>1 DEF Named3, AliasTyped, AliasTypeOK
<1> DEFINE open == ready /\ ~noMail
<1> HIDE DEF lost, open
<1>3. \A a \in lost : row[a] # "none" /\ child3[a] # "none"
  BY <1>2 DEF CurrentIsStored, AccountsFollowAliases, AliasTyped, AliasTypeOK
<1>4. PICK pair \in Replacements(role, lost, open) :
           /\ curAlias' = pair[1] /\ nextAlias' = pair[2]
           /\ child3' = [a \in AliasIds |->
                           IF a \in lost THEN "disabled"
                           ELSE IF a = pair[2] \/ (a = pair[1] /\ role = "current")
                             THEN "bound" ELSE child3[a]]
           /\ crossed' = CrossedBy(lost \cup {pair[1], pair[2]})
  BY <1>1 DEF open
\* Who takes over.
<1>5. /\ pair[2] # NoAlias => pair[2] \in Free3(lost)
      /\ role = "next" => pair[1] = curAlias
      /\ role = "current" => \/ pair[1] = nextAlias /\ nextAlias \notin lost \cup {NoAlias}
                             \/ pair[1] \in Free3(lost) /\ nextAlias \in lost \cup {NoAlias}
                             \/ pair[1] = curAlias /\ nextAlias \in lost \cup {NoAlias}
  <2> DEFINE Free(S)  == IF open THEN Free3(S) ELSE {}
             promoted == IF nextAlias \in lost \cup {NoAlias} THEN Free(lost) ELSE {nextAlias}
  <2>1. \/ role = "next" /\ pair \in {curAlias} \X FirstOf(Free(lost))
        \/ role = "current" /\ promoted = {} /\ pair = <<curAlias, NoAlias>>
        \/ /\ role = "current"
           /\ \E c \in promoted : pair \in {c} \X FirstOf(Free(lost \cup {c}))
    BY <1>4 DEF Replacements
  <2>2. \A c : /\ FirstOf(Free(lost)) \subseteq Free3(lost) \cup {NoAlias}
               /\ FirstOf(Free(lost \cup {c})) \subseteq Free3(lost) \cup {NoAlias}
    BY DEF FirstOf, Free3
  <2>3. promoted = {} => nextAlias \in lost \cup {NoAlias}
    OBVIOUS
  <2>4. \A c \in promoted : \/ c = nextAlias /\ nextAlias \notin lost \cup {NoAlias}
                            \/ c \in Free3(lost) /\ nextAlias \in lost \cup {NoAlias}
    OBVIOUS
  <2> HIDE DEF Free, promoted
  <2>5. CASE role = "next" /\ pair \in {curAlias} \X FirstOf(Free(lost))
    BY <2>2, <2>5
  <2>6. CASE role = "current" /\ promoted = {} /\ pair = <<curAlias, NoAlias>>
    BY <2>3, <2>6
  <2>7. ASSUME role = "current", NEW c \in promoted,
               pair \in {c} \X FirstOf(Free(lost \cup {c}))
        PROVE  /\ pair[2] # NoAlias => pair[2] \in Free3(lost)
               /\ \/ pair[1] = nextAlias /\ nextAlias \notin lost \cup {NoAlias}
                  \/ pair[1] \in Free3(lost) /\ nextAlias \in lost \cup {NoAlias}
    <3>1. pair[1] = c /\ pair[2] \in FirstOf(Free(lost \cup {c}))
      BY <2>7
    <3> QED
      BY <2>2, <2>4, <3>1
  <2> QED
    BY <2>1, <2>5, <2>6, <2>7
<1>6. \A a \in Free3(lost) : /\ a \in AliasIds /\ a \notin lost /\ a # NoAlias
                             /\ child3[a] = "available" /\ row[a] = "active"
  BY DEF Free3, AliasIds
<1>7. {pair[1], pair[2]} \subseteq AliasIds \cup {NoAlias}
  BY <1>5, <1>6 DEF AliasTyped, AliasTypeOK
<1>8. /\ crossed' = crossed \cup {a \in Named3(lost \cup {pair[1], pair[2]}) : Switching(a)}
      /\ crossed \subseteq crossed' /\ crossed' \subseteq AliasIds
  BY <1>2, <1>4, <1>7 DEF CrossedBy, Named3, AliasTyped, AliasTypeOK
<1>9. /\ UNCHANGED <<secret, rejected, hme, parented, opVars, click, toggle, abandoned,
                     aliasFaults, apart>>
      /\ ready' \in BOOLEAN /\ wsVersion' \in Nat
      /\ {curAlias', nextAlias'} \subseteq AliasIds \cup {NoAlias} /\ apart' \subseteq AliasIds
  BY <1>1, <1>4, <1>7 DEF AliasTyped, AliasTypeOK
<1>10. /\ row' \in [AliasIds -> {"none", "active", "inactive"}]
       /\ \A a \in AliasIds : row'[a] = "none" <=> row[a] = "none"
       /\ \A a \in AliasIds \ lost : row'[a] = row[a]
  BY <1>1, <1>3 DEF AliasTyped, AliasTypeOK
<1>11. child3' \in [AliasIds -> {"none", "available", "disabled", "bound", "retired"}]
  BY <1>4 DEF AliasTyped, AliasTypeOK
<1>12. ASSUME NEW a \in AliasIds
       PROVE  child3'[a] = "none" <=> row[a] = "none"
  <2>1. row[a] = "none" <=> child3[a] = "none"
    BY DEF AliasTyped, AliasTypeOK
  <2>2. CASE a \in lost
    BY <1>3, <1>4, <2>2
  <2>3. CASE a \notin lost /\ a = pair[2]
    BY <1>4, <1>5, <1>6, <2>3 DEF AliasIds
  <2>4. CASE a \notin lost /\ a # pair[2] /\ a = pair[1] /\ role = "current"
    <3>1. a # NoAlias
      BY AliasesAssumption DEF AliasIds
    <3>2. a = nextAlias \/ a \in Free3(lost)
      BY <1>2, <1>5, <2>4, <3>1
    <3>3. row[a] # "none"
      BY <1>6, <2>1, <3>1, <3>2 DEF AccountsFollowAliases
    <3> QED
      BY <1>4, <2>4, <3>3
  <2>5. CASE a \notin lost /\ a # pair[2] /\ ~(a = pair[1] /\ role = "current")
    BY <1>4, <2>1, <2>5
  <2> QED
    BY <2>2, <2>3, <2>4, <2>5
<1>13. ASSUME NEW a \in AliasIds, Switching(a), a \notin crossed'
       PROVE  row'[a] = row[a] /\ child3'[a] = child3[a]
  <2>1. a \notin lost /\ a # pair[1] /\ a # pair[2]
    BY <1>8, <1>13, AliasesAssumption DEF Named3, AliasIds
  <2> QED
    BY <1>4, <1>10, <2>1
<1>14. CurrentIsStored'
  <2>1. nextAlias # NoAlias => row[nextAlias] # "none"
    BY DEF AccountsFollowAliases, AliasTyped, AliasTypeOK
  <2>2. curAlias' # NoAlias => row[curAlias'] # "none"
    BY <1>4, <1>5, <1>6, <2>1 DEF CurrentIsStored
  <2> QED
    BY <1>9, <1>10, <2>2 DEF CurrentIsStored
<1>15. AccountsFollowAliases'
  <2>1. nextAlias' # NoAlias => child3'[nextAlias'] = "bound"
    BY <1>4, <1>5, <1>6
  <2>2. ASSUME NEW a \in AliasIds, child3'[a] = "bound"
        PROVE  a \in {curAlias', nextAlias'} /\ (row'[a] = "active" \/ a \in crossed')
    <3>1. a \notin lost /\ row'[a] = row[a] /\ a # NoAlias
      BY <1>4, <1>10, <2>2, AliasesAssumption DEF AliasIds
    <3>2. CASE a \in Free3(lost)
      BY <1>4, <1>6, <2>2, <3>1, <3>2
    <3>3. CASE a \notin Free3(lost)
      <4>1. a \in {curAlias, nextAlias}
        BY <1>2, <1>4, <1>5, <2>2, <3>1, <3>3 DEF AccountsFollowAliases
      <4>2. a = pair[1]
        BY <1>2, <1>5, <3>1, <3>3, <4>1
      <4>3. child3[a] = "bound"
        BY <1>2, <1>4, <1>5, <2>2, <3>1, <3>3, <4>1, <4>2 DEF AccountsFollowAliases
      <4> QED
        BY <1>4, <1>8, <3>1, <4>2, <4>3 DEF AccountsFollowAliases
    <3> QED
      BY <3>2, <3>3
  <2>3. ASSUME NEW a \in AliasIds, child3'[a] = "available", row'[a] = "inactive"
        PROVE  \/ a \in apart' \cup crossed'
               \/ \E t \in Togglers : toggle'[t].at = "account" /\ toggle'[t].alias = a
    <3>1. child3[a] = "available" /\ row[a] = "inactive"
      BY <1>4, <1>10, <2>3
    <3> QED
      BY <1>8, <1>9, <3>1 DEF AccountsFollowAliases
  <2> QED
    BY <2>1, <2>2, <2>3 DEF AccountsFollowAliases
<1> QED
  BY <1>8, <1>9, <1>10, <1>11, <1>12, <1>13, <1>14, <1>15 DEF WorkspaceKeeps

LEMMA StatusKeeps ==
  ASSUME AliasTyped, CurrentIsStored, TogglersSawIt, AccountsFollowAliases,
         NEW alias3 \in AliasIds, NEW new \in {"available", "disabled", "retired"},
         TransitionAccountStatus3(alias3, new)
  PROVE  WorkspaceKeeps
<1> USE AliasesAssumption DEF NoAlias
<1>1. /\ child3[alias3] \in {"available", "disabled"}
      /\ child3' = [child3 EXCEPT ![alias3] = new] /\ crossed' = CrossedBy({alias3})
      /\ apart' = IF new = "available" /\ row[alias3] = "inactive" THEN apart \cup {alias3}
                  ELSE apart
      /\ UNCHANGED <<mailVars, hme, row, parented, wsVars3, opVars, click, toggle,
                     abandoned, aliasFaults>>
  BY DEF TransitionAccountStatus3, Manual
<1>2. /\ crossed' = crossed \cup {a \in {alias3} : Switching(a)}
      /\ crossed \subseteq crossed' /\ crossed' \subseteq AliasIds
  <2>1. Named3({alias3}) = {alias3}
    BY NoAliasIsNone DEF Named3
  <2> QED
    BY <1>1, <2>1 DEF CrossedBy, AliasTyped, AliasTypeOK
<1>3. /\ UNCHANGED <<secret, rejected, hme, parented, opVars, click, toggle, abandoned,
                     aliasFaults, row, wsVars3>>
      /\ ready' \in BOOLEAN /\ wsVersion' \in Nat
      /\ {curAlias', nextAlias'} \subseteq AliasIds \cup {NoAlias}
      /\ row' \in [AliasIds -> {"none", "active", "inactive"}]
      /\ apart \subseteq apart' /\ apart' \subseteq AliasIds
  BY <1>1 DEF mailVars, wsVars3, AliasTyped, AliasTypeOK
<1>4. /\ child3' \in [AliasIds -> {"none", "available", "disabled", "bound", "retired"}]
      /\ \A a \in AliasIds \ {alias3} : child3'[a] = child3[a]
      /\ child3'[alias3] = new
  BY <1>1 DEF AliasTyped, AliasTypeOK
<1>5. \A a \in AliasIds : /\ row'[a] = "none" <=> row[a] = "none"
                          /\ child3'[a] = "none" <=> row[a] = "none"
  BY <1>1, <1>3, <1>4 DEF AliasTyped, AliasTypeOK
<1>6. \A a \in AliasIds : Switching(a) /\ a \notin crossed' => a # alias3
  BY <1>2
<1>7. CurrentIsStored'
  BY <1>3 DEF CurrentIsStored, wsVars3
<1>8. AccountsFollowAliases'
  <2>1. nextAlias' # NoAlias => child3'[nextAlias'] = "bound"
    BY <1>1, <1>3, <1>4 DEF AccountsFollowAliases, wsVars3, AliasTyped, AliasTypeOK
  <2>2. ASSUME NEW a \in AliasIds, child3'[a] = "bound"
        PROVE  a \in {curAlias', nextAlias'} /\ (row'[a] = "active" \/ a \in crossed')
    BY <1>2, <1>3, <1>4, <2>2 DEF AccountsFollowAliases, wsVars3
  <2>3. ASSUME NEW a \in AliasIds, child3'[a] = "available", row'[a] = "inactive"
        PROVE  \/ a \in apart' \cup crossed'
               \/ \E t \in Togglers : toggle'[t].at = "account" /\ toggle'[t].alias = a
    <3>1. CASE a = alias3
      BY <1>1, <1>3, <1>4, <2>3, <3>1
    <3>2. CASE a # alias3
      BY <1>2, <1>3, <1>4, <2>3, <3>2 DEF AccountsFollowAliases
    <3> QED
      BY <3>1, <3>2
  <2> QED
    BY <2>1, <2>2, <2>3 DEF AccountsFollowAliases
<1> QED
  BY <1>2, <1>3, <1>4, <1>5, <1>6, <1>7, <1>8 DEF WorkspaceKeeps

LEMMA WorkspaceMovesKeep ==
  ASSUME AliasTyped, CurrentIsStored, TogglersSawIt, AccountsFollowAliases, WorkspaceMoves
  PROVE  WorkspaceKeeps
BY RotateKeeps, UpdateBindingsKeep, ReplaceKeeps, StatusKeeps DEF WorkspaceMoves

-----------------------------------------------------------------------------
LEMMA AliasTypes ==
  ASSUME AliasTyped, InHandIsNew, RowsAreAtApple, CurrentIsStored, TogglersSawIt,
         AliasesAreAccountedFor, AccountsFollowAliases, [AliasNext]_aliasVars
  PROVE  AliasTyped'
<1> USE AliasesAssumption DEF AliasIds, NoAlias, InHandIsNew, RowsAreAtApple, SawIt, TogglersSawIt
<1>1. CASE UpdateICloudMailbox
  <2>0. secret' \in 1..MaxSecrets
    BY <1>1 DEF UpdateICloudMailbox, AliasTyped, AliasTypeOK
  <2>1. ready' \in BOOLEAN /\ secret' \in 1..MaxSecrets /\ rejected' \subseteq 1..MaxSecrets
    BY <1>1, <2>0 DEF UpdateICloudMailbox, AliasTyped, AliasTypeOK
  <2>2. hme' \in [AliasIds -> {"none", "active", "inactive"}]
    BY <1>1 DEF UpdateICloudMailbox, mailVars, localVars, wsVars3, opVars, apiVars, toggleVars, AliasTyped,
       AliasTypeOK
  <2>3. /\ row' \in [AliasIds -> {"none", "active", "inactive"}]
        /\ child3' \in [AliasIds -> {"none", "available", "disabled", "bound", "retired"}]
    BY <1>1 DEF UpdateICloudMailbox, mailVars, localVars, wsVars3, opVars, apiVars, toggleVars, AliasTyped,
       AliasTypeOK
  <2>4. \A a \in AliasIds : row'[a] = "none" <=> child3'[a] = "none"
    BY <1>1 DEF UpdateICloudMailbox, mailVars, localVars, wsVars3, opVars, apiVars, toggleVars, AliasTyped,
       AliasTypeOK
  <2>5. /\ {curAlias', nextAlias'} \subseteq AliasIds \cup {NoAlias}
        /\ wsVersion' \in Nat
    BY <1>1 DEF UpdateICloudMailbox, mailVars, localVars, wsVars3, opVars, apiVars, toggleVars, AliasTyped,
       AliasTypeOK
  <2>6. /\ lockOp' \in {"free", "check", "generate", "import"} \cup Clickers
        /\ opAt' \in {"off", "settings", "create", "store"}
        /\ inHand' \in AliasIds \cup {NoAlias} /\ abandoned' \subseteq AliasIds
        /\ crossed' \subseteq AliasIds /\ apart' \subseteq AliasIds
        /\ parented' \subseteq AliasIds /\ aliasFaults' \in Nat
    BY <1>1 DEF UpdateICloudMailbox, mailVars, localVars, wsVars3, opVars, apiVars, toggleVars, AliasTyped,
       AliasTypeOK
  <2>7. listing' \in [AliasIds -> {"none", "active", "inactive"}]
    BY <1>1 DEF UpdateICloudMailbox, mailVars, localVars, wsVars3, opVars, apiVars, toggleVars, AliasTyped,
       AliasTypeOK
  <2>8. click' \in [Clickers -> [at : {"idle", "read", "enqueue"}, version : Nat]]
    BY <1>1 DEF UpdateICloudMailbox, mailVars, localVars, wsVars3, opVars, apiVars, toggleVars, AliasTyped,
       AliasTypeOK
  <2>9. toggle' \in [Togglers -> [at : {"idle", "remote", "local", "account"},
                                   alias : AliasIds \cup {NoAlias}, to : {"active", "inactive"},
                                   moves : BOOLEAN, with : Nat]]
    BY <1>1 DEF UpdateICloudMailbox, mailVars, localVars, wsVars3, opVars, apiVars, toggleVars, AliasTyped,
       AliasTypeOK
  <2> QED
    BY <2>1, <2>2, <2>3, <2>4, <2>5, <2>6, <2>7, <2>8, <2>9 DEF AliasTyped, AliasTypeOK
<1>2. CASE UpdateMailboxStatus
  BY <1>2 DEF UpdateMailboxStatus, mailVars, localVars, wsVars3, opVars, apiVars, toggleVars, AliasTyped,
     AliasTypeOK
<1>3. CASE SessionEnds
  BY <1>3 DEF SessionEnds, mailVars, localVars, wsVars3, opVars, apiVars, toggleVars, AliasFault, AliasTyped,
     AliasTypeOK
<1>4. CASE CheckBegin
  BY <1>4 DEF CheckBegin, mailVars, localVars, wsVars3, opVars, apiVars, toggleVars, Take, AliasTyped,
     AliasTypeOK
<1>5. CASE CheckEnd
  <2>1. ready' \in BOOLEAN /\ secret' \in 1..MaxSecrets /\ rejected' \subseteq 1..MaxSecrets
    BY <1>5 DEF CheckEnd, mailVars, localVars, wsVars3, opVars, apiVars, toggleVars, Release, AliasFault,
       Creating, AliasTyped, AliasTypeOK
  <2>2. hme' \in [AliasIds -> {"none", "active", "inactive"}]
    BY <1>5 DEF CheckEnd, mailVars, localVars, wsVars3, opVars, apiVars, toggleVars, Release, AliasFault,
       Creating, AliasTyped, AliasTypeOK
  <2>3. /\ row' \in [AliasIds -> {"none", "active", "inactive"}]
        /\ child3' \in [AliasIds -> {"none", "available", "disabled", "bound", "retired"}]
    BY <1>5 DEF CheckEnd, mailVars, localVars, wsVars3, opVars, apiVars, toggleVars, Release, AliasFault,
       Creating, AliasTyped, AliasTypeOK
  <2>4. \A a \in AliasIds : row'[a] = "none" <=> child3'[a] = "none"
    BY <1>5 DEF CheckEnd, mailVars, localVars, wsVars3, opVars, apiVars, toggleVars, Release, AliasFault,
       Creating, AliasTyped, AliasTypeOK
  <2>5. /\ {curAlias', nextAlias'} \subseteq AliasIds \cup {NoAlias}
        /\ wsVersion' \in Nat
    BY <1>5 DEF CheckEnd, mailVars, localVars, wsVars3, opVars, apiVars, toggleVars, Release, AliasFault,
       Creating, AliasTyped, AliasTypeOK
  <2>6. /\ lockOp' \in {"free", "check", "generate", "import"} \cup Clickers
        /\ opAt' \in {"off", "settings", "create", "store"}
        /\ inHand' \in AliasIds \cup {NoAlias} /\ abandoned' \subseteq AliasIds
        /\ crossed' \subseteq AliasIds /\ apart' \subseteq AliasIds
        /\ parented' \subseteq AliasIds /\ aliasFaults' \in Nat
    BY <1>5 DEF CheckEnd, mailVars, localVars, wsVars3, opVars, apiVars, toggleVars, Release, AliasFault,
       Creating, AliasTyped, AliasTypeOK
  <2>7. listing' \in [AliasIds -> {"none", "active", "inactive"}]
    BY <1>5 DEF CheckEnd, mailVars, localVars, wsVars3, opVars, apiVars, toggleVars, Release, AliasFault,
       Creating, AliasTyped, AliasTypeOK
  <2>8. click' \in [Clickers -> [at : {"idle", "read", "enqueue"}, version : Nat]]
    BY <1>5 DEF CheckEnd, mailVars, localVars, wsVars3, opVars, apiVars, toggleVars, Release, AliasFault,
       Creating, AliasTyped, AliasTypeOK
  <2>9. toggle' \in [Togglers -> [at : {"idle", "remote", "local", "account"},
                                   alias : AliasIds \cup {NoAlias}, to : {"active", "inactive"},
                                   moves : BOOLEAN, with : Nat]]
    BY <1>5 DEF CheckEnd, mailVars, localVars, wsVars3, opVars, apiVars, toggleVars, Release, AliasFault,
       Creating, AliasTyped, AliasTypeOK
  <2> QED
    BY <2>1, <2>2, <2>3, <2>4, <2>5, <2>6, <2>7, <2>8, <2>9 DEF AliasTyped, AliasTypeOK
<1>6. CASE GenerateBegin
  BY <1>6 DEF GenerateBegin, mailVars, localVars, wsVars3, opVars, apiVars, toggleVars, Take, Creating,
     AliasTyped, AliasTypeOK
<1>7. CASE CreateAlias
  BY <1>7 DEF CreateAlias, mailVars, localVars, wsVars3, opVars, apiVars, toggleVars, Creating, Unused,
     AliasTyped, AliasTypeOK
<1>8. CASE CreateFails
  <2>1. ready' \in BOOLEAN /\ secret' \in 1..MaxSecrets /\ rejected' \subseteq 1..MaxSecrets
    BY <1>8 DEF CreateFails, mailVars, localVars, wsVars3, opVars, apiVars, toggleVars, Creating, Unused,
       Release, AliasFault, Idle3, Idle, AliasTyped, AliasTypeOK
  <2>2. hme' \in [AliasIds -> {"none", "active", "inactive"}]
    BY <1>8 DEF CreateFails, mailVars, localVars, wsVars3, opVars, apiVars, toggleVars, Creating, Unused,
       Release, AliasFault, Idle3, Idle, AliasTyped, AliasTypeOK
  <2>3. /\ row' \in [AliasIds -> {"none", "active", "inactive"}]
        /\ child3' \in [AliasIds -> {"none", "available", "disabled", "bound", "retired"}]
    BY <1>8 DEF CreateFails, mailVars, localVars, wsVars3, opVars, apiVars, toggleVars, Creating, Unused,
       Release, AliasFault, Idle3, Idle, AliasTyped, AliasTypeOK
  <2>4. \A a \in AliasIds : row'[a] = "none" <=> child3'[a] = "none"
    BY <1>8 DEF CreateFails, mailVars, localVars, wsVars3, opVars, apiVars, toggleVars, Creating, Unused,
       Release, AliasFault, Idle3, Idle, AliasTyped, AliasTypeOK
  <2>5. /\ {curAlias', nextAlias'} \subseteq AliasIds \cup {NoAlias}
        /\ wsVersion' \in Nat
    BY <1>8 DEF CreateFails, mailVars, localVars, wsVars3, opVars, apiVars, toggleVars, Creating, Unused,
       Release, AliasFault, Idle3, Idle, AliasTyped, AliasTypeOK
  <2>6. /\ lockOp' \in {"free", "check", "generate", "import"} \cup Clickers
        /\ opAt' \in {"off", "settings", "create", "store"}
        /\ inHand' \in AliasIds \cup {NoAlias} /\ abandoned' \subseteq AliasIds
        /\ crossed' \subseteq AliasIds /\ apart' \subseteq AliasIds
        /\ parented' \subseteq AliasIds /\ aliasFaults' \in Nat
    <3>1. lockOp' = "free" /\ opAt' = "off" /\ inHand' = NoAlias
      BY <1>8 DEF CreateFails, Release
    <3>2. /\ abandoned' \subseteq AliasIds /\ crossed' \subseteq AliasIds
          /\ apart' \subseteq AliasIds /\ parented' \subseteq AliasIds
      BY <1>8 DEF CreateFails, Unused, localVars, toggleVars, AliasTyped, AliasTypeOK
    <3>3. aliasFaults' \in Nat
      BY <1>8 DEF CreateFails, AliasFault, AliasTyped
    <3> QED
      BY <3>1, <3>2, <3>3
  <2>7. listing' \in [AliasIds -> {"none", "active", "inactive"}]
    BY <1>8 DEF CreateFails, mailVars, localVars, wsVars3, opVars, apiVars, toggleVars, Creating, Unused,
       Release, AliasFault, Idle3, Idle, AliasTyped, AliasTypeOK
  <2>8. click' \in [Clickers -> [at : {"idle", "read", "enqueue"}, version : Nat]]
    BY <1>8 DEF CreateFails, mailVars, localVars, wsVars3, opVars, apiVars, toggleVars, Creating, Unused,
       Release, AliasFault, Idle3, Idle, AliasTyped, AliasTypeOK
  <2>9. toggle' \in [Togglers -> [at : {"idle", "remote", "local", "account"},
                                   alias : AliasIds \cup {NoAlias}, to : {"active", "inactive"},
                                   moves : BOOLEAN, with : Nat]]
    BY <1>8 DEF CreateFails, mailVars, localVars, wsVars3, opVars, apiVars, toggleVars, Creating, Unused,
       Release, AliasFault, Idle3, Idle, AliasTyped, AliasTypeOK
  <2> QED
    BY <2>1, <2>2, <2>3, <2>4, <2>5, <2>6, <2>7, <2>8, <2>9 DEF AliasTyped, AliasTypeOK
<1>9. CASE StoreAlias
  <2>1. ready' \in BOOLEAN /\ secret' \in 1..MaxSecrets /\ rejected' \subseteq 1..MaxSecrets
    BY <1>9 DEF StoreAlias, mailVars, localVars, wsVars3, opVars, apiVars, toggleVars, Creating,
       PrepareAccepts, Release, AliasTyped, AliasTypeOK
  <2>2. hme' \in [AliasIds -> {"none", "active", "inactive"}]
    BY <1>9 DEF StoreAlias, mailVars, localVars, wsVars3, opVars, apiVars, toggleVars, Creating,
       PrepareAccepts, Release, AliasTyped, AliasTypeOK
  <2>3. /\ row' \in [AliasIds -> {"none", "active", "inactive"}]
        /\ child3' \in [AliasIds -> {"none", "available", "disabled", "bound", "retired"}]
    <3>1. row' \in [AliasIds -> {"none", "active", "inactive"}]
      BY <1>9 DEF StoreAlias, AliasTyped, AliasTypeOK
    <3>2. child3' \in [AliasIds -> {"none", "available", "disabled", "bound", "retired"}]
      BY <1>9, ZenonT(40) DEF StoreAlias, AliasTyped, AliasTypeOK
    <3> QED
      BY <3>1, <3>2
  <2>4. \A a \in AliasIds : row'[a] = "none" <=> child3'[a] = "none"
    BY <1>9 DEF StoreAlias, mailVars, localVars, wsVars3, opVars, apiVars, toggleVars, Creating,
       PrepareAccepts, Release, AliasTyped, AliasTypeOK
  <2>5. /\ {curAlias', nextAlias'} \subseteq AliasIds \cup {NoAlias}
        /\ wsVersion' \in Nat
    BY <1>9 DEF StoreAlias, mailVars, localVars, wsVars3, opVars, apiVars, toggleVars, Creating,
       PrepareAccepts, Release, AliasTyped, AliasTypeOK
  <2>6. /\ lockOp' \in {"free", "check", "generate", "import"} \cup Clickers
        /\ opAt' \in {"off", "settings", "create", "store"}
        /\ inHand' \in AliasIds \cup {NoAlias} /\ abandoned' \subseteq AliasIds
        /\ crossed' \subseteq AliasIds /\ apart' \subseteq AliasIds
        /\ parented' \subseteq AliasIds /\ aliasFaults' \in Nat
    <3>1. parented' \subseteq AliasIds
      <4>1. inHand \in AliasIds
        BY <1>9 DEF StoreAlias
      <4>2. parented' = parented \/ parented' = parented \cup {inHand}
        BY <1>9 DEF StoreAlias
      <4>3. parented \subseteq AliasIds
        BY DEF AliasTyped, AliasTypeOK
      <4> HIDE DEF AliasIds
      <4> QED
        BY <4>1, <4>2, <4>3
    <3>2. /\ lockOp' = "free" /\ opAt' = "off" /\ inHand' = NoAlias
          /\ UNCHANGED <<crossed, apart, abandoned, aliasFaults>>
      BY <1>9 DEF StoreAlias, Release, toggleVars
    <3> QED
      BY <3>1, <3>2 DEF AliasTyped, AliasTypeOK
  <2>7. listing' \in [AliasIds -> {"none", "active", "inactive"}]
    BY <1>9 DEF StoreAlias, mailVars, localVars, wsVars3, opVars, apiVars, toggleVars, Creating,
       PrepareAccepts, Release, AliasTyped, AliasTypeOK
  <2>8. click' \in [Clickers -> [at : {"idle", "read", "enqueue"}, version : Nat]]
    <3>1. CASE lockOp = "generate"
      BY <1>9, <3>1 DEF StoreAlias, AliasTyped
    <3>2. CASE lockOp # "generate"
      BY <1>9, <3>2, ClickEntries DEF StoreAlias, AliasTyped, Clicks
    <3> QED
      BY <3>1, <3>2
  <2>9. toggle' \in [Togglers -> [at : {"idle", "remote", "local", "account"},
                                   alias : AliasIds \cup {NoAlias}, to : {"active", "inactive"},
                                   moves : BOOLEAN, with : Nat]]
    BY <1>9 DEF StoreAlias, mailVars, localVars, wsVars3, opVars, apiVars, toggleVars, Creating,
       PrepareAccepts, Release, AliasTyped, AliasTypeOK
  <2> QED
    BY <2>1, <2>2, <2>3, <2>4, <2>5, <2>6, <2>7, <2>8, <2>9 DEF AliasTyped, AliasTypeOK
<1>10. CASE UndoAlias
  <2>1. ready' \in BOOLEAN /\ secret' \in 1..MaxSecrets /\ rejected' \subseteq 1..MaxSecrets
    BY <1>10 DEF UndoAlias, mailVars, localVars, wsVars3, opVars, apiVars, toggleVars, Creating, Release,
       AliasFault, Idle3, Idle, AliasTyped, AliasTypeOK
  <2>2. hme' \in [AliasIds -> {"none", "active", "inactive"}]
    BY <1>10 DEF UndoAlias, mailVars, localVars, wsVars3, opVars, apiVars, toggleVars, Creating, Release,
       AliasFault, Idle3, Idle, AliasTyped, AliasTypeOK
  <2>3. /\ row' \in [AliasIds -> {"none", "active", "inactive"}]
        /\ child3' \in [AliasIds -> {"none", "available", "disabled", "bound", "retired"}]
    BY <1>10 DEF UndoAlias, mailVars, localVars, wsVars3, opVars, apiVars, toggleVars, Creating, Release,
       AliasFault, Idle3, Idle, AliasTyped, AliasTypeOK
  <2>4. \A a \in AliasIds : row'[a] = "none" <=> child3'[a] = "none"
    BY <1>10 DEF UndoAlias, mailVars, localVars, wsVars3, opVars, apiVars, toggleVars, Creating, Release,
       AliasFault, Idle3, Idle, AliasTyped, AliasTypeOK
  <2>5. /\ {curAlias', nextAlias'} \subseteq AliasIds \cup {NoAlias}
        /\ wsVersion' \in Nat
    BY <1>10 DEF UndoAlias, mailVars, localVars, wsVars3, opVars, apiVars, toggleVars, Creating, Release,
       AliasFault, Idle3, Idle, AliasTyped, AliasTypeOK
  <2>6. /\ lockOp' \in {"free", "check", "generate", "import"} \cup Clickers
        /\ opAt' \in {"off", "settings", "create", "store"}
        /\ inHand' \in AliasIds \cup {NoAlias} /\ abandoned' \subseteq AliasIds
        /\ crossed' \subseteq AliasIds /\ apart' \subseteq AliasIds
        /\ parented' \subseteq AliasIds /\ aliasFaults' \in Nat
    <3>1. lockOp' = "free" /\ opAt' = "off" /\ inHand' = NoAlias
      BY <1>10 DEF UndoAlias, Release
    <3>2. /\ abandoned' \subseteq AliasIds /\ crossed' \subseteq AliasIds
          /\ apart' \subseteq AliasIds /\ parented' \subseteq AliasIds
      BY <1>10 DEF UndoAlias, Unused, localVars, toggleVars, AliasTyped, AliasTypeOK
    <3>3. aliasFaults' \in Nat
      BY <1>10 DEF UndoAlias, AliasFault, AliasTyped
    <3> QED
      BY <3>1, <3>2, <3>3
  <2>7. listing' \in [AliasIds -> {"none", "active", "inactive"}]
    BY <1>10 DEF UndoAlias, mailVars, localVars, wsVars3, opVars, apiVars, toggleVars, Creating, Release,
       AliasFault, Idle3, Idle, AliasTyped, AliasTypeOK
  <2>8. click' \in [Clickers -> [at : {"idle", "read", "enqueue"}, version : Nat]]
    BY <1>10 DEF UndoAlias, mailVars, localVars, wsVars3, opVars, apiVars, toggleVars, Creating, Release,
       AliasFault, Idle3, Idle, AliasTyped, AliasTypeOK
  <2>9. toggle' \in [Togglers -> [at : {"idle", "remote", "local", "account"},
                                   alias : AliasIds \cup {NoAlias}, to : {"active", "inactive"},
                                   moves : BOOLEAN, with : Nat]]
    BY <1>10 DEF UndoAlias, mailVars, localVars, wsVars3, opVars, apiVars, toggleVars, Creating, Release,
       AliasFault, Idle3, Idle, AliasTyped, AliasTypeOK
  <2> QED
    BY <2>1, <2>2, <2>3, <2>4, <2>5, <2>6, <2>7, <2>8, <2>9 DEF AliasTyped, AliasTypeOK
<1>11. CASE ImportList
  BY <1>11 DEF ImportList, mailVars, localVars, wsVars3, opVars, apiVars, toggleVars, AliasTyped, AliasTypeOK
<1>12. CASE ImportRejected
  BY <1>12 DEF ImportRejected, mailVars, localVars, wsVars3, opVars, apiVars, toggleVars, AliasTyped,
     AliasTypeOK
<1>13. CASE ImportAliases
  <2>1. ready' \in BOOLEAN /\ secret' \in 1..MaxSecrets /\ rejected' \subseteq 1..MaxSecrets
    BY <1>13 DEF ImportAliases, mailVars, localVars, wsVars3, opVars, apiVars, toggleVars, Release,
       AliasTyped, AliasTypeOK
  <2>2. hme' \in [AliasIds -> {"none", "active", "inactive"}]
    BY <1>13 DEF ImportAliases, mailVars, localVars, wsVars3, opVars, apiVars, toggleVars, Release,
       AliasTyped, AliasTypeOK
  <2>3. /\ row' \in [AliasIds -> {"none", "active", "inactive"}]
        /\ child3' \in [AliasIds -> {"none", "available", "disabled", "bound", "retired"}]
    BY <1>13 DEF ImportAliases, mailVars, localVars, wsVars3, opVars, apiVars, toggleVars, Release,
       AliasTyped, AliasTypeOK
  <2>4. \A a \in AliasIds : row'[a] = "none" <=> child3'[a] = "none"
    BY <1>13 DEF ImportAliases, mailVars, localVars, wsVars3, opVars, apiVars, toggleVars, Release,
       AliasTyped, AliasTypeOK
  <2>5. /\ {curAlias', nextAlias'} \subseteq AliasIds \cup {NoAlias}
        /\ wsVersion' \in Nat
    BY <1>13 DEF ImportAliases, mailVars, localVars, wsVars3, opVars, apiVars, toggleVars, Release,
       AliasTyped, AliasTypeOK
  <2>6. /\ lockOp' \in {"free", "check", "generate", "import"} \cup Clickers
        /\ opAt' \in {"off", "settings", "create", "store"}
        /\ inHand' \in AliasIds \cup {NoAlias} /\ abandoned' \subseteq AliasIds
        /\ crossed' \subseteq AliasIds /\ apart' \subseteq AliasIds
        /\ parented' \subseteq AliasIds /\ aliasFaults' \in Nat
    <3>1. /\ lockOp' = "free" /\ opAt' = "off" /\ inHand' = NoAlias
          /\ UNCHANGED <<crossed, aliasFaults>>
      BY <1>13 DEF ImportAliases, Release
    <3>2. CASE ~ready
      BY <1>13, <3>1, <3>2 DEF ImportAliases, AliasTyped, AliasTypeOK
    <3>3. CASE ready
      <4>1. PICK S \in SUBSET {a \in AliasIds : listing[a] = "active"} :
              /\ parented' = parented \cup S
              /\ abandoned' = abandoned \ S /\ apart' = apart \ S
        BY <1>13, <3>3 DEF ImportAliases
      <4> QED
        BY <3>1, <4>1 DEF AliasTyped, AliasTypeOK
    <3> QED
      BY <3>2, <3>3 DEF AliasTyped, AliasTypeOK
  <2>7. listing' \in [AliasIds -> {"none", "active", "inactive"}]
    BY <1>13 DEF ImportAliases, mailVars, localVars, wsVars3, opVars, apiVars, toggleVars, Release,
       AliasTyped, AliasTypeOK
  <2>8. click' \in [Clickers -> [at : {"idle", "read", "enqueue"}, version : Nat]]
    BY <1>13 DEF ImportAliases, mailVars, localVars, wsVars3, opVars, apiVars, toggleVars, Release,
       AliasTyped, AliasTypeOK
  <2>9. toggle' \in [Togglers -> [at : {"idle", "remote", "local", "account"},
                                   alias : AliasIds \cup {NoAlias}, to : {"active", "inactive"},
                                   moves : BOOLEAN, with : Nat]]
    BY <1>13 DEF ImportAliases, mailVars, localVars, wsVars3, opVars, apiVars, toggleVars, Release,
       AliasTyped, AliasTypeOK
  <2> QED
    BY <2>1, <2>2, <2>3, <2>4, <2>5, <2>6, <2>7, <2>8, <2>9 DEF AliasTyped, AliasTypeOK
<1>14. CASE AliasCrash
  <2>1. /\ UNCHANGED <<ready, secret, rejected, hme, row, child3, parented, curAlias, nextAlias,
                       wsVersion, crossed>>
        /\ lockOp' = "free" /\ opAt' = "off" /\ inHand' = NoAlias
        /\ listing' = [a \in AliasIds |-> "none"] /\ aliasFaults' = aliasFaults + 1
        /\ click' = [c \in Clickers |-> Idle] /\ toggle' = [t \in Togglers |-> NoToggle]
        /\ abandoned' = abandoned \cup (IF inHand = NoAlias THEN {} ELSE {inHand})
        /\ apart' = apart \cup HalfSwitched
    BY <1>14 DEF AliasCrash, mailVars, localVars, wsVars3, Release, AliasFault
  <2>2. HalfSwitched \subseteq AliasIds
    BY DEF HalfSwitched
  <2>3. /\ click' \in [Clickers -> [at : {"idle", "read", "enqueue"}, version : Nat]]
        /\ toggle' \in [Togglers -> [at : {"idle", "remote", "local", "account"},
                                     alias : AliasIds \cup {NoAlias}, to : {"active", "inactive"},
                                     moves : BOOLEAN, with : Nat]]
    BY <2>1 DEF Idle, NoToggle
  <2> QED
    BY <2>1, <2>2, <2>3 DEF AliasTyped, AliasTypeOK
<1>15. ASSUME NEW c \in Clickers, ClickRead(c) PROVE AliasTyped'
  BY <1>15 DEF ClickRead, mailVars, localVars, wsVars3, opVars, apiVars, toggleVars, Idle, AliasTyped,
     AliasTypeOK
<1>16. ASSUME NEW c \in Clickers, ClickAgain(c) PROVE AliasTyped'
  BY <1>16 DEF ClickAgain, mailVars, localVars, wsVars3, opVars, apiVars, toggleVars, Idle, AliasTyped,
     AliasTypeOK
<1>17. ASSUME NEW c \in Clickers, ClickLock(c) PROVE AliasTyped'
  <2>1. ready' \in BOOLEAN /\ secret' \in 1..MaxSecrets /\ rejected' \subseteq 1..MaxSecrets
    BY <1>17 DEF ClickLock, mailVars, localVars, wsVars3, opVars, apiVars, toggleVars, Take, Idle,
       AliasTyped, AliasTypeOK
  <2>2. hme' \in [AliasIds -> {"none", "active", "inactive"}]
    BY <1>17 DEF ClickLock, mailVars, localVars, wsVars3, opVars, apiVars, toggleVars, Take, Idle,
       AliasTyped, AliasTypeOK
  <2>3. /\ row' \in [AliasIds -> {"none", "active", "inactive"}]
        /\ child3' \in [AliasIds -> {"none", "available", "disabled", "bound", "retired"}]
    BY <1>17 DEF ClickLock, mailVars, localVars, wsVars3, opVars, apiVars, toggleVars, Take, Idle,
       AliasTyped, AliasTypeOK
  <2>4. \A a \in AliasIds : row'[a] = "none" <=> child3'[a] = "none"
    BY <1>17 DEF ClickLock, mailVars, localVars, wsVars3, opVars, apiVars, toggleVars, Take, Idle,
       AliasTyped, AliasTypeOK
  <2>5. /\ {curAlias', nextAlias'} \subseteq AliasIds \cup {NoAlias}
        /\ wsVersion' \in Nat
    BY <1>17 DEF ClickLock, mailVars, localVars, wsVars3, opVars, apiVars, toggleVars, Take, Idle,
       AliasTyped, AliasTypeOK
  <2>6. /\ lockOp' \in {"free", "check", "generate", "import"} \cup Clickers
        /\ opAt' \in {"off", "settings", "create", "store"}
        /\ inHand' \in AliasIds \cup {NoAlias} /\ abandoned' \subseteq AliasIds
        /\ crossed' \subseteq AliasIds /\ apart' \subseteq AliasIds
        /\ parented' \subseteq AliasIds /\ aliasFaults' \in Nat
    BY <1>17 DEF ClickLock, mailVars, localVars, wsVars3, opVars, apiVars, toggleVars, Take, Idle,
       AliasTyped, AliasTypeOK
  <2>7. listing' \in [AliasIds -> {"none", "active", "inactive"}]
    BY <1>17 DEF ClickLock, mailVars, localVars, wsVars3, opVars, apiVars, toggleVars, Take, Idle,
       AliasTyped, AliasTypeOK
  <2>8. click' \in [Clickers -> [at : {"idle", "read", "enqueue"}, version : Nat]]
    <3>1. CASE lockOp = "free"
      BY <1>17, <3>1 DEF ClickLock, AliasTyped
    <3>2. CASE lockOp # "free"
      BY <1>17, <3>2, ClickEntries DEF ClickLock, AliasTyped, Clicks
    <3> QED
      BY <3>1, <3>2
  <2>9. toggle' \in [Togglers -> [at : {"idle", "remote", "local", "account"},
                                   alias : AliasIds \cup {NoAlias}, to : {"active", "inactive"},
                                   moves : BOOLEAN, with : Nat]]
    BY <1>17 DEF ClickLock, mailVars, localVars, wsVars3, opVars, apiVars, toggleVars, Take, Idle,
       AliasTyped, AliasTypeOK
  <2> QED
    BY <2>1, <2>2, <2>3, <2>4, <2>5, <2>6, <2>7, <2>8, <2>9 DEF AliasTyped, AliasTypeOK
<1>18. ASSUME NEW c \in Clickers, Enqueue3(c) PROVE AliasTyped'
  <2>1. ready' \in BOOLEAN /\ secret' \in 1..MaxSecrets /\ rejected' \subseteq 1..MaxSecrets
    BY <1>18 DEF Enqueue3, mailVars, localVars, wsVars3, opVars, apiVars, toggleVars, Idle, AliasTyped,
       AliasTypeOK
  <2>2. hme' \in [AliasIds -> {"none", "active", "inactive"}]
    BY <1>18 DEF Enqueue3, mailVars, localVars, wsVars3, opVars, apiVars, toggleVars, Idle, AliasTyped,
       AliasTypeOK
  <2>3. /\ row' \in [AliasIds -> {"none", "active", "inactive"}]
        /\ child3' \in [AliasIds -> {"none", "available", "disabled", "bound", "retired"}]
    BY <1>18 DEF Enqueue3, mailVars, localVars, wsVars3, opVars, apiVars, toggleVars, Idle, AliasTyped,
       AliasTypeOK
  <2>4. \A a \in AliasIds : row'[a] = "none" <=> child3'[a] = "none"
    BY <1>18 DEF AliasesAgree, AccountsFollowAliases, Enqueue3, mailVars, localVars, opVars,
       apiVars, toggleVars, Idle, AliasTyped, AliasTypeOK
  <2>5. /\ {curAlias', nextAlias'} \subseteq AliasIds \cup {NoAlias}
        /\ wsVersion' \in Nat
    BY <1>18 DEF Enqueue3, mailVars, localVars, wsVars3, opVars, apiVars, toggleVars, Idle, AliasTyped,
       AliasTypeOK
  <2>6. /\ lockOp' \in {"free", "check", "generate", "import"} \cup Clickers
        /\ opAt' \in {"off", "settings", "create", "store"}
        /\ inHand' \in AliasIds \cup {NoAlias} /\ abandoned' \subseteq AliasIds
        /\ crossed' \subseteq AliasIds /\ apart' \subseteq AliasIds
        /\ parented' \subseteq AliasIds /\ aliasFaults' \in Nat
    BY <1>18 DEF Enqueue3, mailVars, localVars, wsVars3, opVars, apiVars, toggleVars, Idle, AliasTyped,
       AliasTypeOK
  <2>7. listing' \in [AliasIds -> {"none", "active", "inactive"}]
    BY <1>18 DEF Enqueue3, mailVars, localVars, wsVars3, opVars, apiVars, toggleVars, Idle, AliasTyped,
       AliasTypeOK
  <2>8. click' \in [Clickers -> [at : {"idle", "read", "enqueue"}, version : Nat]]
    BY <1>18 DEF Enqueue3, mailVars, localVars, wsVars3, opVars, apiVars, toggleVars, Idle, AliasTyped,
       AliasTypeOK
  <2>9. toggle' \in [Togglers -> [at : {"idle", "remote", "local", "account"},
                                   alias : AliasIds \cup {NoAlias}, to : {"active", "inactive"},
                                   moves : BOOLEAN, with : Nat]]
    BY <1>18 DEF Enqueue3, mailVars, localVars, wsVars3, opVars, apiVars, toggleVars, Idle, AliasTyped,
       AliasTypeOK
  <2> QED
    BY <2>1, <2>2, <2>3, <2>4, <2>5, <2>6, <2>7, <2>8, <2>9 DEF AliasTyped, AliasTypeOK
<1>19. CASE WorkspaceMoves
  <2>1. WorkspaceKeeps
    BY <1>19, WorkspaceMovesKeep
  <2>2. /\ UNCHANGED <<secret, rejected, hme, parented, lockOp, opAt, opSecret, inHand, listing,
                       click, toggle, abandoned, aliasFaults>>
        /\ ready' \in BOOLEAN /\ wsVersion' \in Nat
        /\ {curAlias', nextAlias'} \subseteq AliasIds \cup {NoAlias}
        /\ row' \in [AliasIds -> {"none", "active", "inactive"}]
        /\ child3' \in [AliasIds -> {"none", "available", "disabled", "bound", "retired"}]
        /\ \A a \in AliasIds : row'[a] = "none" <=> child3'[a] = "none"
        /\ crossed' \subseteq AliasIds /\ apart' \subseteq AliasIds
    BY <2>1 DEF WorkspaceKeeps, opVars
  <2> QED
    BY <2>2 DEF AliasTyped, AliasTypeOK
<1>20. ASSUME NEW t \in Togglers, ToggleRead(t) PROVE AliasTyped'
  <2>1. PICK a \in AliasIds, x \in {"active", "inactive"} :
          /\ toggle' = [toggle EXCEPT ![t] =
                          [at |-> "remote", alias |-> a, to |-> x,
                           moves |-> child3[a] = SwitchedFrom(x), with |-> secret]]
          /\ crossed' = CrossedBy({a})
    BY <1>20 DEF ToggleRead
  <2>2. crossed' \subseteq AliasIds
    BY <2>1 DEF CrossedBy, Named3, AliasTyped, AliasTypeOK
  <2>3. toggle' \in [Togglers -> [at : {"idle", "remote", "local", "account"},
                                   alias : AliasIds \cup {NoAlias}, to : {"active", "inactive"},
                                   moves : BOOLEAN, with : Nat]]
    BY <2>1 DEF AliasTyped, AliasTypeOK
  <2>4. UNCHANGED <<ready, secret, rejected, hme, row, child3, parented, curAlias, nextAlias,
                    wsVersion, lockOp, opAt, opSecret, inHand, listing, click, apart, abandoned,
                    aliasFaults>>
    BY <1>20 DEF ToggleRead, mailVars, localVars, wsVars3, opVars
  <2> QED
    BY <2>2, <2>3, <2>4 DEF AliasTyped, AliasTypeOK
<1>21. ASSUME NEW t \in Togglers, ToggleRemote(t) PROVE AliasTyped'
  <2>1. ready' \in BOOLEAN /\ secret' \in 1..MaxSecrets /\ rejected' \subseteq 1..MaxSecrets
    BY <1>21 DEF ToggleRemote, mailVars, localVars, wsVars3, opVars, apiVars, toggleVars, NoToggle,
       AliasFault, AliasTyped, AliasTypeOK
  <2>2. hme' \in [AliasIds -> {"none", "active", "inactive"}]
    <3>1. toggle[t].to \in {"active", "inactive"}
      BY DEF AliasTyped
    <3> QED
      BY <1>21, <3>1, ZenonT(40) DEF ToggleRemote, AliasTyped, AliasTypeOK
  <2>3. /\ row' \in [AliasIds -> {"none", "active", "inactive"}]
        /\ child3' \in [AliasIds -> {"none", "available", "disabled", "bound", "retired"}]
    BY <1>21 DEF ToggleRemote, mailVars, localVars, wsVars3, opVars, apiVars, toggleVars, NoToggle,
       AliasFault, AliasTyped, AliasTypeOK
  <2>4. \A a \in AliasIds : row'[a] = "none" <=> child3'[a] = "none"
    BY <1>21 DEF ToggleRemote, mailVars, localVars, wsVars3, opVars, apiVars, toggleVars, NoToggle,
       AliasFault, AliasTyped, AliasTypeOK
  <2>5. /\ {curAlias', nextAlias'} \subseteq AliasIds \cup {NoAlias}
        /\ wsVersion' \in Nat
    BY <1>21 DEF ToggleRemote, mailVars, localVars, wsVars3, opVars, apiVars, toggleVars, NoToggle,
       AliasFault, AliasTyped, AliasTypeOK
  <2>6. /\ lockOp' \in {"free", "check", "generate", "import"} \cup Clickers
        /\ opAt' \in {"off", "settings", "create", "store"}
        /\ inHand' \in AliasIds \cup {NoAlias} /\ abandoned' \subseteq AliasIds
        /\ crossed' \subseteq AliasIds /\ apart' \subseteq AliasIds
        /\ parented' \subseteq AliasIds /\ aliasFaults' \in Nat
    BY <1>21 DEF ToggleRemote, mailVars, localVars, wsVars3, opVars, apiVars, toggleVars, NoToggle,
       AliasFault, AliasTyped, AliasTypeOK
  <2>7. listing' \in [AliasIds -> {"none", "active", "inactive"}]
    BY <1>21 DEF ToggleRemote, mailVars, localVars, wsVars3, opVars, apiVars, toggleVars, NoToggle,
       AliasFault, AliasTyped, AliasTypeOK
  <2>8. click' \in [Clickers -> [at : {"idle", "read", "enqueue"}, version : Nat]]
    BY <1>21 DEF ToggleRemote, mailVars, localVars, wsVars3, opVars, apiVars, toggleVars, NoToggle,
       AliasFault, AliasTyped, AliasTypeOK
  <2>9. toggle' \in [Togglers -> [at : {"idle", "remote", "local", "account"},
                                   alias : AliasIds \cup {NoAlias}, to : {"active", "inactive"},
                                   moves : BOOLEAN, with : Nat]]
    <3>1. PICK e \in Toggles : toggle' = [toggle EXCEPT ![t] = e]
      BY <1>21, RemoteStep
    <3> QED
      BY <3>1 DEF AliasTyped, Toggles
  <2> QED
    BY <2>1, <2>2, <2>3, <2>4, <2>5, <2>6, <2>7, <2>8, <2>9 DEF AliasTyped, AliasTypeOK
<1>22. ASSUME NEW t \in Togglers, ToggleLocal(t) PROVE AliasTyped'
  <2>1. ready' \in BOOLEAN /\ secret' \in 1..MaxSecrets /\ rejected' \subseteq 1..MaxSecrets
    BY <1>22 DEF ToggleLocal, mailVars, localVars, wsVars3, opVars, apiVars, toggleVars, NoToggle,
       AliasTyped, AliasTypeOK
  <2>2. hme' \in [AliasIds -> {"none", "active", "inactive"}]
    BY <1>22 DEF ToggleLocal, mailVars, localVars, wsVars3, opVars, apiVars, toggleVars, NoToggle,
       AliasTyped, AliasTypeOK
  <2>3. /\ row' \in [AliasIds -> {"none", "active", "inactive"}]
        /\ child3' \in [AliasIds -> {"none", "available", "disabled", "bound", "retired"}]
    BY <1>22 DEF ToggleLocal, mailVars, localVars, wsVars3, opVars, apiVars, toggleVars, NoToggle,
       AliasTyped, AliasTypeOK
  <2>4. \A a \in AliasIds : row'[a] = "none" <=> child3'[a] = "none"
    BY <1>22 DEF ToggleLocal, mailVars, localVars, wsVars3, opVars, apiVars, toggleVars, NoToggle,
       AliasTyped, AliasTypeOK
  <2>5. /\ {curAlias', nextAlias'} \subseteq AliasIds \cup {NoAlias}
        /\ wsVersion' \in Nat
    BY <1>22 DEF ToggleLocal, mailVars, localVars, wsVars3, opVars, apiVars, toggleVars, NoToggle,
       AliasTyped, AliasTypeOK
  <2>6. /\ lockOp' \in {"free", "check", "generate", "import"} \cup Clickers
        /\ opAt' \in {"off", "settings", "create", "store"}
        /\ inHand' \in AliasIds \cup {NoAlias} /\ abandoned' \subseteq AliasIds
        /\ crossed' \subseteq AliasIds /\ apart' \subseteq AliasIds
        /\ parented' \subseteq AliasIds /\ aliasFaults' \in Nat
    BY <1>22 DEF ToggleLocal, mailVars, localVars, wsVars3, opVars, apiVars, toggleVars, NoToggle,
       AliasTyped, AliasTypeOK
  <2>7. listing' \in [AliasIds -> {"none", "active", "inactive"}]
    BY <1>22 DEF ToggleLocal, mailVars, localVars, wsVars3, opVars, apiVars, toggleVars, NoToggle,
       AliasTyped, AliasTypeOK
  <2>8. click' \in [Clickers -> [at : {"idle", "read", "enqueue"}, version : Nat]]
    BY <1>22 DEF ToggleLocal, mailVars, localVars, wsVars3, opVars, apiVars, toggleVars, NoToggle,
       AliasTyped, AliasTypeOK
  <2>9. toggle' \in [Togglers -> [at : {"idle", "remote", "local", "account"},
                                   alias : AliasIds \cup {NoAlias}, to : {"active", "inactive"},
                                   moves : BOOLEAN, with : Nat]]
    BY <1>22, ToggleEntries DEF ToggleLocal, AliasTyped, Toggles
  <2> QED
    BY <2>1, <2>2, <2>3, <2>4, <2>5, <2>6, <2>7, <2>8, <2>9 DEF AliasTyped, AliasTypeOK
<1>23. ASSUME NEW t \in Togglers, ToggleAccount(t) PROVE AliasTyped'
  BY <1>23 DEF ToggleAccount, mailVars, localVars, wsVars3, opVars, apiVars, toggleVars, NoToggle,
     MovesWithRow, SwitchedFrom, SwitchedTo, AliasTyped, AliasTypeOK
<1>24. CASE UNCHANGED aliasVars
  BY <1>24 DEF aliasVars, mailVars, localVars, wsVars3, opVars, apiVars, toggleVars, AliasTyped, AliasTypeOK
<1> QED
  BY <1>1, <1>2, <1>3, <1>4, <1>5, <1>6, <1>7, <1>8, <1>9, <1>10, <1>11, <1>12, <1>13,
     <1>14, <1>15, <1>16, <1>17, <1>18, <1>19, <1>20, <1>21, <1>22, <1>23, <1>24 DEF AliasNext, WorkspaceMoves

LEMMA AliasInHand ==
  ASSUME AliasTyped, InHandIsNew, RowsAreAtApple, CurrentIsStored, TogglersSawIt,
         AliasesAreAccountedFor, AccountsFollowAliases, [AliasNext]_aliasVars
  PROVE  InHandIsNew'
<1> USE AliasesAssumption DEF AliasIds, NoAlias, RowsAreAtApple, SawIt, TogglersSawIt
<1>1. CASE UpdateICloudMailbox
  BY <1>1 DEF UpdateICloudMailbox, mailVars, localVars, wsVars3, opVars, apiVars, toggleVars, InHandIsNew,
     AliasTyped, AliasTypeOK, Creating
<1>2. CASE UpdateMailboxStatus
  BY <1>2 DEF UpdateMailboxStatus, mailVars, localVars, wsVars3, opVars, apiVars, toggleVars, InHandIsNew,
     AliasTyped, AliasTypeOK, Creating
<1>3. CASE SessionEnds
  BY <1>3 DEF SessionEnds, mailVars, localVars, wsVars3, opVars, apiVars, toggleVars, AliasFault,
     InHandIsNew, AliasTyped, AliasTypeOK, Creating
<1>4. CASE CheckBegin
  BY <1>4 DEF CheckBegin, mailVars, localVars, wsVars3, opVars, apiVars, toggleVars, Take, InHandIsNew,
     AliasTyped, AliasTypeOK, Creating
<1>5. CASE CheckEnd
  BY <1>5 DEF CheckEnd, mailVars, localVars, wsVars3, opVars, apiVars, toggleVars, Release, AliasFault,
     Creating, InHandIsNew, AliasTyped, AliasTypeOK, Creating
<1>6. CASE GenerateBegin
  BY <1>6 DEF GenerateBegin, mailVars, localVars, wsVars3, opVars, apiVars, toggleVars, Take, Creating,
     InHandIsNew, AliasTyped, AliasTypeOK, Creating
<1>7. CASE CreateAlias
  BY <1>7 DEF CreateAlias, mailVars, localVars, wsVars3, opVars, apiVars, toggleVars, Creating, Unused,
     InHandIsNew, AliasTyped, AliasTypeOK, Creating
<1>8. CASE CreateFails
  BY <1>8 DEF CreateFails, mailVars, localVars, wsVars3, opVars, apiVars, toggleVars, Creating, Unused,
     Release, AliasFault, Idle3, Idle, InHandIsNew, AliasTyped, AliasTypeOK, Creating
<1>9. CASE StoreAlias
  BY <1>9 DEF StoreAlias, mailVars, localVars, wsVars3, opVars, apiVars, toggleVars, Creating,
     PrepareAccepts, Release, InHandIsNew, AliasTyped, AliasTypeOK, Creating
<1>10. CASE UndoAlias
  BY <1>10 DEF UndoAlias, mailVars, localVars, wsVars3, opVars, apiVars, toggleVars, Creating, Release,
     AliasFault, Idle3, Idle, InHandIsNew, AliasTyped, AliasTypeOK, Creating
<1>11. CASE ImportList
  BY <1>11 DEF ImportList, mailVars, localVars, wsVars3, opVars, apiVars, toggleVars, InHandIsNew,
     AliasTyped, AliasTypeOK, Creating
<1>12. CASE ImportRejected
  BY <1>12 DEF ImportRejected, mailVars, localVars, wsVars3, opVars, apiVars, toggleVars, InHandIsNew,
     AliasTyped, AliasTypeOK, Creating
<1>13. CASE ImportAliases
  BY <1>13 DEF ImportAliases, mailVars, localVars, wsVars3, opVars, apiVars, toggleVars, Release,
     InHandIsNew, AliasTyped, AliasTypeOK, Creating
<1>14. CASE AliasCrash
  BY <1>14 DEF AliasCrash, mailVars, localVars, wsVars3, opVars, apiVars, toggleVars, Release, AliasFault,
     Idle, NoToggle, InHandIsNew, AliasTyped, AliasTypeOK, Creating
<1>15. ASSUME NEW c \in Clickers, ClickRead(c) PROVE InHandIsNew'
  BY <1>15 DEF ClickRead, mailVars, localVars, wsVars3, opVars, apiVars, toggleVars, Idle, InHandIsNew,
     AliasTyped, AliasTypeOK, Creating
<1>16. ASSUME NEW c \in Clickers, ClickAgain(c) PROVE InHandIsNew'
  BY <1>16 DEF ClickAgain, mailVars, localVars, wsVars3, opVars, apiVars, toggleVars, Idle, InHandIsNew,
     AliasTyped, AliasTypeOK, Creating
<1>17. ASSUME NEW c \in Clickers, ClickLock(c) PROVE InHandIsNew'
  BY <1>17 DEF ClickLock, mailVars, localVars, wsVars3, opVars, apiVars, toggleVars, Take, Idle, InHandIsNew,
     AliasTyped, AliasTypeOK, Creating
<1>18. ASSUME NEW c \in Clickers, Enqueue3(c) PROVE InHandIsNew'
  BY <1>18 DEF Enqueue3, mailVars, localVars, wsVars3, opVars, apiVars, toggleVars, Idle, InHandIsNew,
     AliasTyped, AliasTypeOK, Creating
<1>19. CASE WorkspaceMoves
  BY <1>19, WorkspaceMovesKeep DEF WorkspaceKeeps, opVars, InHandIsNew, AliasTyped, AliasTypeOK, Creating
<1>20. ASSUME NEW t \in Togglers, ToggleRead(t) PROVE InHandIsNew'
  BY <1>20 DEF ToggleRead, mailVars, localVars, wsVars3, opVars, apiVars, toggleVars, SwitchedFrom,
     ToggleAllowed, InHandIsNew, AliasTyped, AliasTypeOK, Creating
<1>21. ASSUME NEW t \in Togglers, ToggleRemote(t) PROVE InHandIsNew'
  BY <1>21 DEF ToggleRemote, mailVars, localVars, wsVars3, opVars, apiVars, toggleVars, NoToggle, AliasFault,
     InHandIsNew, AliasTyped, AliasTypeOK, Creating
<1>22. ASSUME NEW t \in Togglers, ToggleLocal(t) PROVE InHandIsNew'
  BY <1>22 DEF ToggleLocal, mailVars, localVars, wsVars3, opVars, apiVars, toggleVars, NoToggle, InHandIsNew,
     AliasTyped, AliasTypeOK, Creating
<1>23. ASSUME NEW t \in Togglers, ToggleAccount(t) PROVE InHandIsNew'
  BY <1>23 DEF ToggleAccount, mailVars, localVars, wsVars3, opVars, apiVars, toggleVars, NoToggle,
     MovesWithRow, SwitchedFrom, SwitchedTo, InHandIsNew, AliasTyped, AliasTypeOK, Creating
<1>24. CASE UNCHANGED aliasVars
  BY <1>24 DEF aliasVars, mailVars, localVars, wsVars3, opVars, apiVars, toggleVars, InHandIsNew, AliasTyped,
     AliasTypeOK, Creating
<1> QED
  BY <1>1, <1>2, <1>3, <1>4, <1>5, <1>6, <1>7, <1>8, <1>9, <1>10, <1>11, <1>12, <1>13,
     <1>14, <1>15, <1>16, <1>17, <1>18, <1>19, <1>20, <1>21, <1>22, <1>23, <1>24 DEF AliasNext, WorkspaceMoves

LEMMA AliasRows ==
  ASSUME AliasTyped, InHandIsNew, RowsAreAtApple, CurrentIsStored, TogglersSawIt,
         AliasesAreAccountedFor, AccountsFollowAliases, [AliasNext]_aliasVars
  PROVE  RowsAreAtApple'
<1> USE AliasesAssumption DEF AliasIds, NoAlias, InHandIsNew, SawIt, TogglersSawIt
<1>1. CASE UpdateICloudMailbox
  BY <1>1 DEF UpdateICloudMailbox, mailVars, localVars, wsVars3, opVars, apiVars, toggleVars, RowsAreAtApple,
     AliasTyped, AliasTypeOK
<1>2. CASE UpdateMailboxStatus
  BY <1>2 DEF UpdateMailboxStatus, mailVars, localVars, wsVars3, opVars, apiVars, toggleVars, RowsAreAtApple,
     AliasTyped, AliasTypeOK
<1>3. CASE SessionEnds
  BY <1>3 DEF SessionEnds, mailVars, localVars, wsVars3, opVars, apiVars, toggleVars, AliasFault,
     RowsAreAtApple, AliasTyped, AliasTypeOK
<1>4. CASE CheckBegin
  BY <1>4 DEF CheckBegin, mailVars, localVars, wsVars3, opVars, apiVars, toggleVars, Take, RowsAreAtApple,
     AliasTyped, AliasTypeOK
<1>5. CASE CheckEnd
  BY <1>5 DEF CheckEnd, mailVars, localVars, wsVars3, opVars, apiVars, toggleVars, Release, AliasFault,
     Creating, RowsAreAtApple, AliasTyped, AliasTypeOK
<1>6. CASE GenerateBegin
  BY <1>6 DEF GenerateBegin, mailVars, localVars, wsVars3, opVars, apiVars, toggleVars, Take, Creating,
     RowsAreAtApple, AliasTyped, AliasTypeOK
<1>7. CASE CreateAlias
  BY <1>7 DEF CreateAlias, mailVars, localVars, wsVars3, opVars, apiVars, toggleVars, Creating, Unused,
     RowsAreAtApple, AliasTyped, AliasTypeOK
<1>8. CASE CreateFails
  BY <1>8 DEF CreateFails, mailVars, localVars, wsVars3, opVars, apiVars, toggleVars, Creating, Unused,
     Release, AliasFault, Idle3, Idle, RowsAreAtApple, AliasTyped, AliasTypeOK
<1>9. CASE StoreAlias
  BY <1>9 DEF StoreAlias, mailVars, localVars, wsVars3, opVars, apiVars, toggleVars, Creating,
     PrepareAccepts, Release, RowsAreAtApple, AliasTyped, AliasTypeOK
<1>10. CASE UndoAlias
  BY <1>10 DEF UndoAlias, mailVars, localVars, wsVars3, opVars, apiVars, toggleVars, Creating, Release,
     AliasFault, Idle3, Idle, RowsAreAtApple, AliasTyped, AliasTypeOK
<1>11. CASE ImportList
  BY <1>11 DEF ImportList, mailVars, localVars, wsVars3, opVars, apiVars, toggleVars, RowsAreAtApple,
     AliasTyped, AliasTypeOK
<1>12. CASE ImportRejected
  BY <1>12 DEF ImportRejected, mailVars, localVars, wsVars3, opVars, apiVars, toggleVars, RowsAreAtApple,
     AliasTyped, AliasTypeOK
<1>13. CASE ImportAliases
  BY <1>13 DEF ImportAliases, mailVars, localVars, wsVars3, opVars, apiVars, toggleVars, Release,
     RowsAreAtApple, AliasTyped, AliasTypeOK
<1>14. CASE AliasCrash
  BY <1>14 DEF AliasCrash, mailVars, localVars, wsVars3, opVars, apiVars, toggleVars, Release, AliasFault,
     Idle, NoToggle, RowsAreAtApple, AliasTyped, AliasTypeOK
<1>15. ASSUME NEW c \in Clickers, ClickRead(c) PROVE RowsAreAtApple'
  BY <1>15 DEF ClickRead, mailVars, localVars, wsVars3, opVars, apiVars, toggleVars, Idle, RowsAreAtApple,
     AliasTyped, AliasTypeOK
<1>16. ASSUME NEW c \in Clickers, ClickAgain(c) PROVE RowsAreAtApple'
  BY <1>16 DEF ClickAgain, mailVars, localVars, wsVars3, opVars, apiVars, toggleVars, Idle, RowsAreAtApple,
     AliasTyped, AliasTypeOK
<1>17. ASSUME NEW c \in Clickers, ClickLock(c) PROVE RowsAreAtApple'
  BY <1>17 DEF ClickLock, mailVars, localVars, wsVars3, opVars, apiVars, toggleVars, Take, Idle,
     RowsAreAtApple, AliasTyped, AliasTypeOK
<1>18. ASSUME NEW c \in Clickers, Enqueue3(c) PROVE RowsAreAtApple'
  BY <1>18 DEF Enqueue3, mailVars, localVars, wsVars3, opVars, apiVars, toggleVars, Idle, RowsAreAtApple,
     AliasTyped, AliasTypeOK
<1>19. CASE WorkspaceMoves
  BY <1>19, WorkspaceMovesKeep DEF WorkspaceKeeps, opVars, RowsAreAtApple
<1>20. ASSUME NEW t \in Togglers, ToggleRead(t) PROVE RowsAreAtApple'
  BY <1>20 DEF ToggleRead, mailVars, localVars, wsVars3, opVars, apiVars, toggleVars, SwitchedFrom,
     ToggleAllowed, RowsAreAtApple, AliasTyped, AliasTypeOK
<1>21. ASSUME NEW t \in Togglers, ToggleRemote(t) PROVE RowsAreAtApple'
  BY <1>21 DEF ToggleRemote, mailVars, localVars, wsVars3, opVars, apiVars, toggleVars, NoToggle, AliasFault,
     RowsAreAtApple, AliasTyped, AliasTypeOK
<1>22. ASSUME NEW t \in Togglers, ToggleLocal(t) PROVE RowsAreAtApple'
  BY <1>22 DEF ToggleLocal, mailVars, localVars, wsVars3, opVars, apiVars, toggleVars, NoToggle,
     RowsAreAtApple, AliasTyped, AliasTypeOK
<1>23. ASSUME NEW t \in Togglers, ToggleAccount(t) PROVE RowsAreAtApple'
  BY <1>23 DEF ToggleAccount, mailVars, localVars, wsVars3, opVars, apiVars, toggleVars, NoToggle,
     MovesWithRow, SwitchedFrom, SwitchedTo, RowsAreAtApple, AliasTyped, AliasTypeOK
<1>24. CASE UNCHANGED aliasVars
  BY <1>24 DEF aliasVars, mailVars, localVars, wsVars3, opVars, apiVars, toggleVars, RowsAreAtApple,
     AliasTyped, AliasTypeOK
<1> QED
  BY <1>1, <1>2, <1>3, <1>4, <1>5, <1>6, <1>7, <1>8, <1>9, <1>10, <1>11, <1>12, <1>13,
     <1>14, <1>15, <1>16, <1>17, <1>18, <1>19, <1>20, <1>21, <1>22, <1>23, <1>24 DEF AliasNext, WorkspaceMoves

LEMMA AliasCurrent ==
  ASSUME AliasTyped, InHandIsNew, RowsAreAtApple, CurrentIsStored, TogglersSawIt,
         AliasesAreAccountedFor, AccountsFollowAliases, [AliasNext]_aliasVars
  PROVE  CurrentIsStored'
<1>1. CASE WorkspaceMoves
  BY <1>1, WorkspaceMovesKeep DEF WorkspaceKeeps
<1>2. CASE UNCHANGED <<row, curAlias>>
  BY <1>2 DEF CurrentIsStored
<1>3. CASE StoreAlias \/ ImportAliases
  BY <1>3 DEF StoreAlias, ImportAliases, wsVars3, CurrentIsStored, AliasTyped, AliasTypeOK, NoAlias
<1>4. ASSUME NEW t \in Togglers, ToggleLocal(t)
      PROVE  CurrentIsStored'
  <2>1. toggle[t].to \in {"active", "inactive"}
    BY DEF AliasTyped
  <2> QED
    BY <1>4, <2>1 DEF ToggleLocal, wsVars3, CurrentIsStored, AliasTyped, AliasTypeOK
<1>5. CASE CheckBegin \/ CheckEnd \/ GenerateBegin \/ CreateAlias \/ CreateFails \/ UndoAlias
  BY <1>2, <1>5 DEF CheckBegin, CheckEnd, GenerateBegin, CreateAlias, CreateFails, UndoAlias,
     localVars, wsVars3
<1>6. CASE ImportList \/ ImportRejected \/ AliasCrash
  BY <1>2, <1>6 DEF ImportList, ImportRejected, AliasCrash, localVars, wsVars3
<1>7. CASE UpdateICloudMailbox \/ UpdateMailboxStatus \/ SessionEnds
  BY <1>2, <1>7 DEF UpdateICloudMailbox, UpdateMailboxStatus, SessionEnds, localVars, wsVars3
<1>8. ASSUME NEW c \in Clickers, ClickRead(c) \/ ClickAgain(c) \/ ClickLock(c) \/ Enqueue3(c)
      PROVE  CurrentIsStored'
  BY <1>2, <1>8 DEF ClickRead, ClickAgain, ClickLock, Enqueue3, localVars, wsVars3
<1>9. ASSUME NEW t \in Togglers, ToggleRead(t) \/ ToggleRemote(t) \/ ToggleAccount(t)
      PROVE  CurrentIsStored'
  BY <1>2, <1>9 DEF ToggleRead, ToggleRemote, ToggleAccount, localVars, wsVars3
<1>10. CASE UNCHANGED aliasVars
  BY <1>2, <1>10 DEF aliasVars, localVars, wsVars3
<1> QED
  BY <1>1, <1>3, <1>4, <1>5, <1>6, <1>7, <1>8, <1>9, <1>10 DEF AliasNext, WorkspaceMoves

LEMMA AliasTogglers ==
  ASSUME AliasTyped, InHandIsNew, RowsAreAtApple, CurrentIsStored, TogglersSawIt,
         AliasesAreAccountedFor, AccountsFollowAliases, [AliasNext]_aliasVars
  PROVE  TogglersSawIt'
<1> USE AliasesAssumption DEF AliasIds, NoAlias, InHandIsNew, RowsAreAtApple
<1>1. CASE UpdateICloudMailbox
  BY <1>1 DEF UpdateICloudMailbox, mailVars, localVars, wsVars3, opVars, apiVars, toggleVars, SawIt,
     TogglersSawIt, AliasTyped, AliasTypeOK, Toggling
<1>2. CASE UpdateMailboxStatus
  BY <1>2 DEF UpdateMailboxStatus, mailVars, localVars, wsVars3, opVars, apiVars, toggleVars, SawIt,
     TogglersSawIt, AliasTyped, AliasTypeOK, Toggling
<1>3. CASE SessionEnds
  BY <1>3 DEF SessionEnds, mailVars, localVars, wsVars3, opVars, apiVars, toggleVars, AliasFault, SawIt,
     TogglersSawIt, AliasTyped, AliasTypeOK, Toggling
<1>4. CASE CheckBegin
  BY <1>4 DEF CheckBegin, mailVars, localVars, wsVars3, opVars, apiVars, toggleVars, Take, SawIt,
     TogglersSawIt, AliasTyped, AliasTypeOK, Toggling
<1>5. CASE CheckEnd
  BY <1>5 DEF CheckEnd, mailVars, localVars, wsVars3, opVars, apiVars, toggleVars, Release, AliasFault,
     Creating, SawIt, TogglersSawIt, AliasTyped, AliasTypeOK, Toggling
<1>6. CASE GenerateBegin
  BY <1>6 DEF GenerateBegin, mailVars, localVars, wsVars3, opVars, apiVars, toggleVars, Take, Creating,
     SawIt, TogglersSawIt, AliasTyped, AliasTypeOK, Toggling
<1>7. CASE CreateAlias
  BY <1>7 DEF CreateAlias, mailVars, localVars, wsVars3, opVars, apiVars, toggleVars, Creating, Unused,
     SawIt, TogglersSawIt, AliasTyped, AliasTypeOK, Toggling
<1>8. CASE CreateFails
  BY <1>8 DEF CreateFails, mailVars, localVars, wsVars3, opVars, apiVars, toggleVars, Creating, Unused,
     Release, AliasFault, Idle3, Idle, SawIt, TogglersSawIt, AliasTyped, AliasTypeOK, Toggling
<1>9. CASE StoreAlias
  BY <1>9 DEF StoreAlias, mailVars, localVars, wsVars3, opVars, apiVars, toggleVars, Creating,
     PrepareAccepts, Release, SawIt, TogglersSawIt, AliasTyped, AliasTypeOK, Toggling
<1>10. CASE UndoAlias
  BY <1>10 DEF UndoAlias, mailVars, localVars, wsVars3, opVars, apiVars, toggleVars, Creating, Release,
     AliasFault, Idle3, Idle, SawIt, TogglersSawIt, AliasTyped, AliasTypeOK, Toggling
<1>11. CASE ImportList
  BY <1>11 DEF ImportList, mailVars, localVars, wsVars3, opVars, apiVars, toggleVars, SawIt, TogglersSawIt,
     AliasTyped, AliasTypeOK, Toggling
<1>12. CASE ImportRejected
  BY <1>12 DEF ImportRejected, mailVars, localVars, wsVars3, opVars, apiVars, toggleVars, SawIt,
     TogglersSawIt, AliasTyped, AliasTypeOK, Toggling
<1>13. CASE ImportAliases
  BY <1>13 DEF ImportAliases, mailVars, localVars, wsVars3, opVars, apiVars, toggleVars, Release, SawIt,
     TogglersSawIt, AliasTyped, AliasTypeOK, Toggling
<1>14. CASE AliasCrash
  BY <1>14 DEF AliasCrash, mailVars, localVars, wsVars3, opVars, apiVars, toggleVars, Release, AliasFault,
     Idle, NoToggle, SawIt, TogglersSawIt, AliasTyped, AliasTypeOK, Toggling
<1>15. ASSUME NEW c \in Clickers, ClickRead(c) PROVE TogglersSawIt'
  BY <1>15 DEF ClickRead, mailVars, localVars, wsVars3, opVars, apiVars, toggleVars, Idle, SawIt,
     TogglersSawIt, AliasTyped, AliasTypeOK, Toggling
<1>16. ASSUME NEW c \in Clickers, ClickAgain(c) PROVE TogglersSawIt'
  BY <1>16 DEF ClickAgain, mailVars, localVars, wsVars3, opVars, apiVars, toggleVars, Idle, SawIt,
     TogglersSawIt, AliasTyped, AliasTypeOK, Toggling
<1>17. ASSUME NEW c \in Clickers, ClickLock(c) PROVE TogglersSawIt'
  BY <1>17 DEF ClickLock, mailVars, localVars, wsVars3, opVars, apiVars, toggleVars, Take, Idle, SawIt,
     TogglersSawIt, AliasTyped, AliasTypeOK, Toggling
<1>18. ASSUME NEW c \in Clickers, Enqueue3(c) PROVE TogglersSawIt'
  BY <1>18 DEF Enqueue3, mailVars, localVars, wsVars3, opVars, apiVars, toggleVars, Idle, SawIt,
     TogglersSawIt, AliasTyped, AliasTypeOK, Toggling
<1>19. CASE WorkspaceMoves
  BY <1>19, WorkspaceMovesKeep DEF WorkspaceKeeps, opVars, SawIt, TogglersSawIt, Toggling, Switching
<1>20. ASSUME NEW t \in Togglers, ToggleRead(t) PROVE TogglersSawIt'
  <2>1. PICK a \in AliasIds, x \in {"active", "inactive"} :
          /\ row[a] \notin {"none", x} /\ ToggleAllowed(a)
          /\ toggle' = [toggle EXCEPT ![t] =
                          [at |-> "remote", alias |-> a, to |-> x,
                           moves |-> child3[a] = SwitchedFrom(x), with |-> secret]]
          /\ crossed' = CrossedBy({a})
    BY <1>20 DEF ToggleRead
  <2>2. /\ toggle'[t].at = "remote" /\ toggle'[t].alias = a /\ toggle'[t].to = x
        /\ toggle'[t].moves = (child3[a] = SwitchedFrom(x))
        /\ \A u \in Togglers \ {t} : toggle'[u] = toggle[u]
        /\ UNCHANGED <<row, child3>>
    BY <1>20, <2>1 DEF ToggleRead, localVars, AliasTyped
  <2>3. crossed \subseteq crossed' /\ (Switching(a) => a \in crossed')
    BY <2>1, NoAliasIsNone DEF CrossedBy, Named3
  <2>4. ASSUME NEW u \in Togglers, toggle'[u].at # "idle" PROVE SawIt(u)'
    <3>1. CASE u = t
      <4>1. a \in AliasIds /\ row'[a] # "none"
        BY <2>1, <2>2
      <4>2. \A v \in Togglers \ {t} : Toggling(v, a)' => a \in crossed'
        BY <2>2, <2>3 DEF Toggling, Switching
      <4>3. x = "inactive" /\ ~(child3[a] = SwitchedFrom(x)) => child3[a] # "available"
        BY DEF SwitchedFrom
      <4>4. /\ child3'[a] # "bound"
            /\ toggle'[t].to = "inactive" /\ ~toggle'[t].moves => child3'[a] # "available"
        BY <2>1, <2>2, <4>3 DEF ToggleAllowed
      <4> QED
        BY <2>2, <3>1, <4>1, <4>2, <4>4 DEF SawIt
    <3>2. CASE u # t
      <4>1. SawIt(u) /\ toggle'[u] = toggle[u]
        BY <2>2, <2>4, <3>2 DEF TogglersSawIt
      <4>2. Toggling(t, toggle[u].alias)' => toggle[u].alias \in crossed'
        BY <2>2, <2>4, <2>3, <3>2 DEF Toggling, Switching
      <4> QED
        BY <2>2, <2>3, <3>2, <4>1, <4>2 DEF SawIt, Toggling
    <3> QED
      BY <3>1, <3>2
  <2> QED
    BY <2>4 DEF SawIt, TogglersSawIt
<1>21. ASSUME NEW t \in Togglers, ToggleRemote(t) PROVE TogglersSawIt'
  <2>1. /\ toggle'[t].at # "idle" =>
             /\ toggle'[t].at = "local" /\ toggle'[t].alias = toggle[t].alias
             /\ toggle'[t].to = toggle[t].to /\ toggle'[t].moves = toggle[t].moves
        /\ \A u \in Togglers \ {t} : toggle'[u] = toggle[u]
        /\ toggle[t].at = "remote" /\ UNCHANGED <<row, child3, crossed>>
    <3>1. PICK e \in Toggles :
            /\ toggle' = [toggle EXCEPT ![t] = e]
            /\ \/ e.at = "idle"
               \/ /\ e.at = "local" /\ e.alias = toggle[t].alias
                  /\ e.to = toggle[t].to /\ e.moves = toggle[t].moves
      BY <1>21, RemoteStep
    <3>2. toggle'[t] = e /\ \A u \in Togglers \ {t} : toggle'[u] = toggle[u]
      BY <3>1 DEF AliasTyped
    <3> QED
      BY <1>21, <3>1, <3>2, RemoteStep DEF ToggleRemote, localVars
  <2>2. ASSUME NEW u \in Togglers, toggle'[u].at # "idle" PROVE SawIt(u)'
    <3>1. CASE u = t
      BY <2>1, <2>2, <3>1 DEF SawIt, Toggling, TogglersSawIt
    <3>2. CASE u # t
      BY <2>1, <2>2, <3>2 DEF SawIt, Toggling, TogglersSawIt
    <3> QED
      BY <3>1, <3>2
  <2> QED
    BY <2>2 DEF SawIt, TogglersSawIt
<1>22. ASSUME NEW t \in Togglers, ToggleLocal(t) PROVE TogglersSawIt'
  BY <1>22 DEF ToggleLocal, mailVars, localVars, wsVars3, opVars, apiVars, toggleVars, NoToggle, SawIt,
     TogglersSawIt, AliasTyped, AliasTypeOK, Toggling
<1>23. ASSUME NEW t \in Togglers, ToggleAccount(t) PROVE TogglersSawIt'
  BY <1>23 DEF ToggleAccount, mailVars, localVars, wsVars3, opVars, apiVars, toggleVars, NoToggle,
     MovesWithRow, SwitchedFrom, SwitchedTo, SawIt, TogglersSawIt, AliasTyped, AliasTypeOK, Toggling
<1>24. CASE UNCHANGED aliasVars
  BY <1>24 DEF aliasVars, mailVars, localVars, wsVars3, opVars, apiVars, toggleVars, SawIt, TogglersSawIt,
     AliasTyped, AliasTypeOK, Toggling
<1> QED
  BY <1>1, <1>2, <1>3, <1>4, <1>5, <1>6, <1>7, <1>8, <1>9, <1>10, <1>11, <1>12, <1>13,
     <1>14, <1>15, <1>16, <1>17, <1>18, <1>19, <1>20, <1>21, <1>22, <1>23, <1>24 DEF AliasNext, WorkspaceMoves

LEMMA AliasAccounts ==
  ASSUME AliasTyped, InHandIsNew, RowsAreAtApple, CurrentIsStored, TogglersSawIt,
         AliasesAreAccountedFor, AccountsFollowAliases, [AliasNext]_aliasVars
  PROVE  AliasesAreAccountedFor'
<1> USE AliasesAssumption DEF AliasIds, NoAlias, InHandIsNew, RowsAreAtApple, SawIt, TogglersSawIt
<1>1. CASE UpdateICloudMailbox
  BY <1>1 DEF UpdateICloudMailbox, mailVars, localVars, wsVars3, opVars, apiVars, toggleVars,
     AliasesAreAccountedFor, AliasTyped, AliasTypeOK
<1>2. CASE UpdateMailboxStatus
  BY <1>2 DEF UpdateMailboxStatus, mailVars, localVars, wsVars3, opVars, apiVars, toggleVars,
     AliasesAreAccountedFor, AliasTyped, AliasTypeOK
<1>3. CASE SessionEnds
  BY <1>3 DEF SessionEnds, mailVars, localVars, wsVars3, opVars, apiVars, toggleVars, AliasFault,
     AliasesAreAccountedFor, AliasTyped, AliasTypeOK
<1>4. CASE CheckBegin
  BY <1>4 DEF CheckBegin, mailVars, localVars, wsVars3, opVars, apiVars, toggleVars, Take,
     AliasesAreAccountedFor, AliasTyped, AliasTypeOK
<1>5. CASE CheckEnd
  BY <1>5 DEF CheckEnd, mailVars, localVars, wsVars3, opVars, apiVars, toggleVars, Release, AliasFault,
     Creating, AliasesAreAccountedFor, AliasTyped, AliasTypeOK
<1>6. CASE GenerateBegin
  BY <1>6 DEF GenerateBegin, mailVars, localVars, wsVars3, opVars, apiVars, toggleVars, Take, Creating,
     AliasesAreAccountedFor, AliasTyped, AliasTypeOK
<1>7. CASE CreateAlias
  BY <1>7 DEF CreateAlias, mailVars, localVars, wsVars3, opVars, apiVars, toggleVars, Creating, Unused,
     AliasesAreAccountedFor, AliasTyped, AliasTypeOK
<1>8. CASE CreateFails
  BY <1>8 DEF CreateFails, mailVars, localVars, wsVars3, opVars, apiVars, toggleVars, Creating, Unused,
     Release, AliasFault, Idle3, Idle, AliasesAreAccountedFor, AliasTyped, AliasTypeOK
<1>9. CASE StoreAlias
  BY <1>9 DEF StoreAlias, mailVars, localVars, wsVars3, opVars, apiVars, toggleVars, Creating,
     PrepareAccepts, Release, AliasesAreAccountedFor, AliasTyped, AliasTypeOK
<1>10. CASE UndoAlias
  BY <1>10 DEF UndoAlias, mailVars, localVars, wsVars3, opVars, apiVars, toggleVars, Creating, Release,
     AliasFault, Idle3, Idle, AliasesAreAccountedFor, AliasTyped, AliasTypeOK
<1>11. CASE ImportList
  BY <1>11 DEF ImportList, mailVars, localVars, wsVars3, opVars, apiVars, toggleVars, AliasesAreAccountedFor,
     AliasTyped, AliasTypeOK
<1>12. CASE ImportRejected
  BY <1>12 DEF ImportRejected, mailVars, localVars, wsVars3, opVars, apiVars, toggleVars,
     AliasesAreAccountedFor, AliasTyped, AliasTypeOK
<1>13. CASE ImportAliases
  <2>1. CASE ~ready
    BY <1>13, <2>1 DEF ImportAliases, Release, AliasesAreAccountedFor, AliasTyped, AliasTypeOK,
       Creating
  <2>2. CASE ready
    <3>1. PICK S \in SUBSET {a \in AliasIds : listing[a] = "active"} :
            /\ row' = [a \in AliasIds |-> IF a \in S THEN "active" ELSE row[a]]
            /\ abandoned' = abandoned \ S
      BY <1>13, <2>2 DEF ImportAliases
    <3> QED
      BY <1>13, <3>1 DEF ImportAliases, AliasesAreAccountedFor, Creating
  <2> QED
    BY <2>1, <2>2 DEF AliasTyped, AliasTypeOK
<1>14. CASE AliasCrash
  BY <1>14 DEF AliasCrash, mailVars, localVars, wsVars3, opVars, apiVars, toggleVars, Release, AliasFault,
     Idle, NoToggle, AliasesAreAccountedFor, AliasTyped, AliasTypeOK
<1>15. ASSUME NEW c \in Clickers, ClickRead(c) PROVE AliasesAreAccountedFor'
  BY <1>15 DEF ClickRead, mailVars, localVars, wsVars3, opVars, apiVars, toggleVars, Idle,
     AliasesAreAccountedFor, AliasTyped, AliasTypeOK
<1>16. ASSUME NEW c \in Clickers, ClickAgain(c) PROVE AliasesAreAccountedFor'
  BY <1>16 DEF ClickAgain, mailVars, localVars, wsVars3, opVars, apiVars, toggleVars, Idle,
     AliasesAreAccountedFor, AliasTyped, AliasTypeOK
<1>17. ASSUME NEW c \in Clickers, ClickLock(c) PROVE AliasesAreAccountedFor'
  BY <1>17 DEF ClickLock, mailVars, localVars, wsVars3, opVars, apiVars, toggleVars, Take, Idle,
     AliasesAreAccountedFor, AliasTyped, AliasTypeOK
<1>18. ASSUME NEW c \in Clickers, Enqueue3(c) PROVE AliasesAreAccountedFor'
  BY <1>18 DEF Enqueue3, mailVars, localVars, wsVars3, opVars, apiVars, toggleVars, Idle,
     AliasesAreAccountedFor, AliasTyped, AliasTypeOK
<1>19. CASE WorkspaceMoves
  BY <1>19, WorkspaceMovesKeep DEF WorkspaceKeeps, opVars, AliasesAreAccountedFor
<1>20. ASSUME NEW t \in Togglers, ToggleRead(t) PROVE AliasesAreAccountedFor'
  BY <1>20 DEF ToggleRead, mailVars, localVars, wsVars3, opVars, apiVars, toggleVars, SwitchedFrom,
     ToggleAllowed, AliasesAreAccountedFor, AliasTyped, AliasTypeOK
<1>21. ASSUME NEW t \in Togglers, ToggleRemote(t) PROVE AliasesAreAccountedFor'
  BY <1>21 DEF ToggleRemote, mailVars, localVars, wsVars3, opVars, apiVars, toggleVars, NoToggle, AliasFault,
     AliasesAreAccountedFor, AliasTyped, AliasTypeOK
<1>22. ASSUME NEW t \in Togglers, ToggleLocal(t) PROVE AliasesAreAccountedFor'
  BY <1>22 DEF ToggleLocal, mailVars, localVars, wsVars3, opVars, apiVars, toggleVars, NoToggle,
     AliasesAreAccountedFor, AliasTyped, AliasTypeOK
<1>23. ASSUME NEW t \in Togglers, ToggleAccount(t) PROVE AliasesAreAccountedFor'
  BY <1>23 DEF ToggleAccount, mailVars, localVars, wsVars3, opVars, apiVars, toggleVars, NoToggle,
     MovesWithRow, SwitchedFrom, SwitchedTo, AliasesAreAccountedFor, AliasTyped, AliasTypeOK
<1>24. CASE UNCHANGED aliasVars
  BY <1>24 DEF aliasVars, mailVars, localVars, wsVars3, opVars, apiVars, toggleVars, AliasesAreAccountedFor,
     AliasTyped, AliasTypeOK
<1> QED
  BY <1>1, <1>2, <1>3, <1>4, <1>5, <1>6, <1>7, <1>8, <1>9, <1>10, <1>11, <1>12, <1>13,
     <1>14, <1>15, <1>16, <1>17, <1>18, <1>19, <1>20, <1>21, <1>22, <1>23, <1>24 DEF AliasNext, WorkspaceMoves

LEMMA AliasFollow ==
  ASSUME AliasTyped, InHandIsNew, RowsAreAtApple, CurrentIsStored, TogglersSawIt,
         AliasesAreAccountedFor, AccountsFollowAliases, [AliasNext]_aliasVars
  PROVE  AccountsFollowAliases'
<1> USE AliasesAssumption DEF AliasIds, NoAlias, InHandIsNew, RowsAreAtApple, SawIt, TogglersSawIt
<1>1. CASE UpdateICloudMailbox
  BY <1>1 DEF UpdateICloudMailbox, mailVars, localVars, wsVars3, opVars, apiVars, toggleVars,
     AccountsFollowAliases, AliasTyped, AliasTypeOK, Toggling
<1>2. CASE UpdateMailboxStatus
  BY <1>2 DEF UpdateMailboxStatus, mailVars, localVars, wsVars3, opVars, apiVars, toggleVars,
     AccountsFollowAliases, AliasTyped, AliasTypeOK, Toggling
<1>3. CASE SessionEnds
  BY <1>3 DEF SessionEnds, mailVars, localVars, wsVars3, opVars, apiVars, toggleVars, AliasFault,
     AccountsFollowAliases, AliasTyped, AliasTypeOK, Toggling
<1>4. CASE CheckBegin
  BY <1>4 DEF CheckBegin, mailVars, localVars, wsVars3, opVars, apiVars, toggleVars, Take,
     AccountsFollowAliases, AliasTyped, AliasTypeOK, Toggling
<1>5. CASE CheckEnd
  BY <1>5 DEF CheckEnd, mailVars, localVars, wsVars3, opVars, apiVars, toggleVars, Release, AliasFault,
     Creating, AccountsFollowAliases, AliasTyped, AliasTypeOK, Toggling
<1>6. CASE GenerateBegin
  BY <1>6 DEF GenerateBegin, mailVars, localVars, wsVars3, opVars, apiVars, toggleVars, Take, Creating,
     AccountsFollowAliases, AliasTyped, AliasTypeOK, Toggling
<1>7. CASE CreateAlias
  BY <1>7 DEF CreateAlias, mailVars, localVars, wsVars3, opVars, apiVars, toggleVars, Creating, Unused,
     AccountsFollowAliases, AliasTyped, AliasTypeOK, Toggling
<1>8. CASE CreateFails
  BY <1>8 DEF CreateFails, mailVars, localVars, wsVars3, opVars, apiVars, toggleVars, Creating, Unused,
     Release, AliasFault, Idle3, Idle, AccountsFollowAliases, AliasTyped, AliasTypeOK, Toggling
<1>9. CASE StoreAlias
  BY <1>9 DEF StoreAlias, mailVars, localVars, wsVars3, opVars, apiVars, toggleVars, Creating,
     PrepareAccepts, Release, AccountsFollowAliases, AliasTyped, AliasTypeOK, Toggling
<1>10. CASE UndoAlias
  BY <1>10 DEF UndoAlias, mailVars, localVars, wsVars3, opVars, apiVars, toggleVars, Creating, Release,
     AliasFault, Idle3, Idle, AccountsFollowAliases, AliasTyped, AliasTypeOK, Toggling
<1>11. CASE ImportList
  BY <1>11 DEF ImportList, mailVars, localVars, wsVars3, opVars, apiVars, toggleVars, AccountsFollowAliases,
     AliasTyped, AliasTypeOK, Toggling
<1>12. CASE ImportRejected
  BY <1>12 DEF ImportRejected, mailVars, localVars, wsVars3, opVars, apiVars, toggleVars,
     AccountsFollowAliases, AliasTyped, AliasTypeOK, Toggling
<1>13. CASE ImportAliases
  BY <1>13 DEF ImportAliases, mailVars, localVars, wsVars3, opVars, apiVars, toggleVars, Release,
     AccountsFollowAliases, AliasTyped, AliasTypeOK, Toggling
<1>14. CASE AliasCrash
  <2>1. /\ UNCHANGED <<row, child3, curAlias, nextAlias, crossed>>
        /\ apart' = apart \cup HalfSwitched
    BY <1>14 DEF AliasCrash, localVars, wsVars3
  <2>2. ASSUME NEW a \in AliasIds, child3[a] = "available", row[a] = "inactive"
        PROVE  a \in apart' \cup crossed'
    <3>1. ASSUME NEW t \in Togglers, toggle[t].at = "account", toggle[t].alias = a,
                 a \notin crossed
          PROVE  a \in HalfSwitched
      <4>1. toggle[t].to = "inactive"
        BY <2>2, <3>1 DEF AliasTyped
      <4> QED
        BY <3>1, <4>1 DEF HalfSwitched
    <3> QED
      BY <2>1, <2>2, <3>1 DEF AccountsFollowAliases
  <2> QED
    BY <2>1, <2>2 DEF AccountsFollowAliases
<1>15. ASSUME NEW c \in Clickers, ClickRead(c) PROVE AccountsFollowAliases'
  BY <1>15 DEF ClickRead, mailVars, localVars, wsVars3, opVars, apiVars, toggleVars, Idle,
     AccountsFollowAliases, AliasTyped, AliasTypeOK, Toggling
<1>16. ASSUME NEW c \in Clickers, ClickAgain(c) PROVE AccountsFollowAliases'
  BY <1>16 DEF ClickAgain, mailVars, localVars, wsVars3, opVars, apiVars, toggleVars, Idle,
     AccountsFollowAliases, AliasTyped, AliasTypeOK, Toggling
<1>17. ASSUME NEW c \in Clickers, ClickLock(c) PROVE AccountsFollowAliases'
  BY <1>17 DEF ClickLock, mailVars, localVars, wsVars3, opVars, apiVars, toggleVars, Take, Idle,
     AccountsFollowAliases, AliasTyped, AliasTypeOK, Toggling
<1>18. ASSUME NEW c \in Clickers, Enqueue3(c) PROVE AccountsFollowAliases'
  BY <1>18 DEF Enqueue3, mailVars, localVars, wsVars3, opVars, apiVars, toggleVars, Idle,
     AccountsFollowAliases, AliasTyped, AliasTypeOK, Toggling
<1>19. CASE WorkspaceMoves
  BY <1>19, WorkspaceMovesKeep DEF WorkspaceKeeps, opVars, AccountsFollowAliases
<1>20. ASSUME NEW t \in Togglers, ToggleRead(t) PROVE AccountsFollowAliases'
  <2>1. /\ UNCHANGED <<row, child3, curAlias, nextAlias, apart>>
        /\ \A u \in Togglers \ {t} : toggle'[u] = toggle[u]
        /\ toggle[t].at = "idle" /\ crossed \subseteq crossed'
    BY <1>20 DEF ToggleRead, localVars, wsVars3, CrossedBy, AliasTyped
  <2>2. \A u \in Togglers : toggle[u].at = "account" => toggle'[u] = toggle[u]
    BY <2>1
  <2> QED
    BY <2>1, <2>2 DEF AccountsFollowAliases
<1>21. ASSUME NEW t \in Togglers, ToggleRemote(t) PROVE AccountsFollowAliases'
  <2>1. /\ \A u \in Togglers \ {t} : toggle'[u] = toggle[u]
        /\ toggle[t].at = "remote"
        /\ UNCHANGED <<row, child3, curAlias, nextAlias, apart, crossed>>
    BY <1>21 DEF ToggleRemote, localVars, wsVars3, AliasTyped
  <2>2. \A u \in Togglers : toggle[u].at = "account" => toggle'[u] = toggle[u]
    BY <2>1
  <2> QED
    BY <2>1, <2>2 DEF AccountsFollowAliases
<1>22. ASSUME NEW t \in Togglers, ToggleLocal(t) PROVE AccountsFollowAliases'
  BY <1>22 DEF ToggleLocal, mailVars, localVars, wsVars3, opVars, apiVars, toggleVars, NoToggle,
     AccountsFollowAliases, AliasTyped, AliasTypeOK, Toggling
<1>23. ASSUME NEW t \in Togglers, ToggleAccount(t) PROVE AccountsFollowAliases'
  BY <1>23 DEF ToggleAccount, mailVars, localVars, wsVars3, opVars, apiVars, toggleVars, NoToggle,
     MovesWithRow, SwitchedFrom, SwitchedTo, AccountsFollowAliases, AliasTyped, AliasTypeOK,
     Toggling
<1>24. CASE UNCHANGED aliasVars
  BY <1>24 DEF aliasVars, mailVars, localVars, wsVars3, opVars, apiVars, toggleVars, AccountsFollowAliases,
     AliasTyped, AliasTypeOK, Toggling
<1> QED
  BY <1>1, <1>2, <1>3, <1>4, <1>5, <1>6, <1>7, <1>8, <1>9, <1>10, <1>11, <1>12, <1>13,
     <1>14, <1>15, <1>16, <1>17, <1>18, <1>19, <1>20, <1>21, <1>22, <1>23, <1>24 DEF AliasNext, WorkspaceMoves

LEMMA AliasInvInit == AliasInit => AliasInv
<1> SUFFICES ASSUME AliasInit PROVE AliasInv
  OBVIOUS
<1>1. AliasTypeOK
  <2>1. 1 \in 1..MaxSecrets
    BY AliasesAssumption
  <2> QED
    BY <2>1 DEF AliasInit, AliasTypeOK, NoAlias
<1>2. AliasTyped
  BY <1>1, ClickEntries DEF AliasInit, AliasTyped, Clicks, NoToggle, NoAlias
<1>3. InHandIsNew /\ RowsAreAtApple /\ CurrentIsStored
  BY DEF AliasInit, InHandIsNew, RowsAreAtApple, CurrentIsStored, NoAlias
<1>4. TogglersSawIt
  BY DEF AliasInit, TogglersSawIt, NoToggle
<1>5. AliasesAgree
  BY DEF AliasInit, AliasesAgree, AliasesAreAccountedFor, AccountsFollowAliases
<1> QED
  BY <1>2, <1>3, <1>4, <1>5 DEF AliasInv

LEMMA AliasInvStep == AliasInv /\ [AliasNext]_aliasVars => AliasInv'
BY AliasTypes, AliasInHand, AliasRows, AliasCurrent, AliasTogglers, AliasAccounts, AliasFollow
   DEF AliasInv, AliasesAgree

LEMMA AliasInvTyped == AliasInv => AliasTypeOK
BY DEF AliasInv, AliasTyped

LEMMA AliasInvariant == AliasSpec => []AliasInv
BY AliasInvInit, AliasInvStep, PTL DEF AliasSpec

\* The types of the aliases; an account exists exactly for an alias the tables
\* know (import_icloud_aliases and create_icloud_alias write both rows in one
\* transaction).
THEOREM AliasesTyped == AliasSpec => []AliasTypeOK
BY AliasInvariant, AliasInvTyped, PTL

\* No alias is forgotten, the account a workspace waits for stays bound and no
\* account is available whose alias is inactive, for any number of threads that
\* hand over or switch aliases and whatever the operator edits meanwhile
\* (create_icloud_alias, prepare_icloud_workspace_handoff behind
\* _icloud_operation_lock; set_icloud_alias_state, update_workspace_bindings,
\* replace_workspace_account and transition_account_status without it).
THEOREM AliasesAreKept == AliasSpec => []AliasesAgree
BY AliasInvariant, PTL DEF AliasInv

LEMMA NextChildStep ==
  AliasInv /\ [AliasNext]_aliasVars
    => [lockOp' # lockOp /\ nextAlias # NoAlias => nextAlias' = nextAlias]_aliasVars
<1> SUFFICES ASSUME AliasInv, AliasNext, lockOp' # lockOp, nextAlias # NoAlias
             PROVE  nextAlias' = nextAlias
  BY DEF aliasVars
<1>1. CASE StoreAlias
  BY <1>1 DEF StoreAlias, PrepareAccepts
<1>2. CASE CheckBegin \/ CheckEnd \/ GenerateBegin \/ CreateAlias \/ CreateFails \/ UndoAlias
  BY <1>2 DEF CheckBegin, CheckEnd, GenerateBegin, CreateAlias, CreateFails, UndoAlias,
     localVars, wsVars3
<1>3. CASE ImportList \/ ImportRejected \/ ImportAliases \/ AliasCrash
  BY <1>3 DEF ImportList, ImportRejected, ImportAliases, AliasCrash, localVars, wsVars3
<1>4. CASE UpdateICloudMailbox \/ UpdateMailboxStatus \/ SessionEnds
  BY <1>4 DEF UpdateICloudMailbox, UpdateMailboxStatus, SessionEnds, localVars, wsVars3
<1>5. ASSUME NEW c \in Clickers, ClickRead(c) \/ ClickAgain(c) \/ ClickLock(c) \/ Enqueue3(c)
      PROVE  nextAlias' = nextAlias
  BY <1>5 DEF ClickRead, ClickAgain, ClickLock, Enqueue3, localVars, wsVars3
<1>6. CASE WorkspaceMoves
  BY <1>6, WorkspaceMovesKeep DEF AliasInv, AliasesAgree, WorkspaceKeeps, opVars
<1>7. ASSUME NEW t \in Togglers,
             ToggleRead(t) \/ ToggleRemote(t) \/ ToggleLocal(t) \/ ToggleAccount(t)
      PROVE  nextAlias' = nextAlias
  BY <1>7 DEF ToggleRead, ToggleRemote, ToggleLocal, ToggleAccount, localVars, wsVars3
<1> QED
  BY <1>1, <1>2, <1>3, <1>4, <1>5, <1>6, <1>7 DEF AliasNext, WorkspaceMoves

\* The child a workspace has been given is not replaced by another operation on
\* the mailbox, however many clicks have read the workspace before and whoever
\* has given it the child (prepare_icloud_workspace_handoff).
THEOREM NextChildStays == AliasSpec => NextChildIsNotReplaced
BY NextChildStep, AliasInvariant, PTL DEF AliasSpec, NextChildIsNotReplaced

(***************************************************************************)
(* The login of a child.                                                   *)
(***************************************************************************)
LoginTyped ==
  /\ requests \in Nat /\ inbox \in Seq(Nat) /\ Arrived \subseteq 1..requests
  /\ fresh \in Nat /\ tried \subseteq Nat /\ code \in Nat
  /\ loginRun # "running" => loginAt = "off"
  /\ storedDoc \in [saved : Nat, seen : SUBSET (1..requests)]
  /\ doc \in [saved : Nat, seen : SUBSET (1..requests)]
  /\ orphan \in [saved : Nat, seen : SUBSET (1..requests)]

\* A code that was submitted is among the mails seen, in the checkpoint and
\* in the run's copy of it, and the code in hand was not submitted yet.
SubmittedWereSeen ==
  provider = "icloud" /\ ~overwritten =>
    /\ submitted \subseteq storedDoc.seen
    /\ loginAt # "off" => submitted \subseteq doc.seen
    /\ loginAt = "validate" => code \in storedDoc.seen \cap doc.seen /\ code \notin submitted

\* While a login waits, the mail it asked for last counts as recent, and it
\* has seen it only to try its code in this attempt.
LastMailIsAwaited ==
  loginAt \in {"wait", "validate"} =>
    /\ fresh <= requests /\ requests # 0
    /\ provider = "icloud" /\ requests \in doc.seen =>
         requests \in (IF loginAt = "wait" THEN tried ELSE tried \cup {code})

Mailing == LoginTyped /\ SubmittedWereSeen /\ LastMailIsAwaited

\* Each way to start over has its own budget; a phone gate renews one of them.
StartsLeft ==
  /\ attempts \in Nat /\ phoneLeft \in 0..PhoneRecycles
  /\ signinLeft \in 0..SigninRecycles /\ delaysLeft \in 0..RateDelays
  /\ attempts + signinLeft + delaysLeft + phoneLeft * (1 + RateDelays)
       <= 1 + PhoneRecycles + SigninRecycles + (1 + PhoneRecycles) * RateDelays

LEMMA MinOfTwo ==
  ASSUME NEW m \in Nat, NEW n \in Nat
  PROVE  Min({m, n}) \in Nat /\ Min({m, n}) <= m
<1>1. \E x \in {m, n} : \A y \in {m, n} : x <= y
  OBVIOUS
<1>2. Min({m, n}) \in {m, n} /\ \A y \in {m, n} : Min({m, n}) <= y
  BY <1>1 DEF Min
<1> QED
  BY <1>2

\* The code that is found came in a mail, and at iCloud in one not seen before.
LEMMA FoundIsUsable ==
  /\ \A m \in Found : m \in Arrived /\ m >= fresh /\ m \notin tried
  /\ provider = "icloud" => \A m \in Found : m \notin doc.seen
BY DEF Found, NewestUnseen, NewestByDate, Usable

LEMMA LoginTypes ==
  ASSUME Mailing, [LoginNext]_loginVars
  PROVE  LoginTyped'
<1> USE DEF Mailing, child, checkpoint, attempt, budget, mailbox, loginHistory, loginCounts, Mails,
           NoDoc, NoMail, Logins
<1>1. CASE LoginBegins
  BY <1>1 DEF LoginBegins, LoginTyped, Arrived, ToSet
<1>2. CASE LoginCrash
  BY <1>2 DEF LoginCrash, Forget, LoginTyped, Arrived, ToSet
<1>3. CASE LoginRetry
  BY <1>3 DEF LoginRetry, LoginTyped, Arrived, ToSet
<1>4. CASE LoginAgain
  BY <1>4 DEF LoginAgain, LoginTyped, Arrived, ToSet
<1>5. CASE LoginStopped
  BY <1>5 DEF LoginStopped, LoginFails, Forget, LoginTyped, Arrived, ToSet
<1>6. CASE StartLogin
  BY <1>6 DEF StartLogin, LoginStep, LoginTyped, Arrived, ToSet
<1>7. CASE Bootstrap
  <2>1. CASE AtForm
    BY <1>7, <2>1 DEF Bootstrap, AtForm, LoginStep, LoginTyped, Arrived
  <2>2. CASE Failing("error")
    BY <2>2 DEF Failing, LoginFails, Forget, LoginTyped, Arrived, NoMail
  <2> QED
    BY <1>7, <2>1, <2>2 DEF Bootstrap
<1>8. CASE OpenForm
  <2>1. CASE AtForm
    BY <1>8, <2>1 DEF OpenForm, AtForm, LoginStep, LoginTyped, Arrived
  <2>2. CASE Failing("error")
    BY <2>2 DEF Failing, LoginFails, Forget, LoginTyped, Arrived, NoMail
  <2> QED
    BY <1>8, <2>1, <2>2 DEF OpenForm
<1>9. CASE RateLimited
  BY <1>9 DEF RateLimited, StartAttempt, LoginStep, Failing, LoginFails, Forget, LoginTyped,
     Arrived, ToSet
<1>10. CASE Authorize
  <2>1. CASE CodeRequested
    BY <1>10, <2>1 DEF Authorize, CodeRequested, FreshMails, LoginStep, LoginTyped, Arrived
  <2>2. CASE AsksForCode
    BY <1>10, <2>2 DEF Authorize, AsksForCode, LoginStep, LoginTyped, Arrived
  <2> QED
    BY <1>10, <2>1, <2>2 DEF Authorize
<1>11. CASE EmailForm
  <2>1. CASE CodeRequested
    BY <1>11, <2>1 DEF EmailForm, CodeRequested, FreshMails, LoginStep, LoginTyped, Arrived
  <2>2. CASE AsksForCode
    BY <1>11, <2>2 DEF EmailForm, AsksForCode, LoginStep, LoginTyped, Arrived
  <2> QED
    BY <1>11, <2>1, <2>2 DEF EmailForm
<1>12. CASE SendCode
  BY <1>12, SMTT(30) DEF SendCode, CodeRequested, FreshMails, LoginStep, LoginTyped, Arrived, ToSet
<1>13. CASE FindCode
  <2>1. PICK m \in Found :
          /\ code' = m
          /\ IF provider = "icloud" THEN Remember(m) ELSE UNCHANGED checkpoint
    BY <1>13 DEF FindCode
  <2>2. m \in 1..requests
    BY FoundIsUsable DEF LoginTyped
  <2>3. /\ storedDoc' \in [saved : Nat, seen : SUBSET (1..requests)]
        /\ doc' \in [saved : Nat, seen : SUBSET (1..requests)]
    BY <2>1, <2>2 DEF Remember, LoginTyped
  <2> QED
    BY <1>13, <2>1, <2>2, <2>3 DEF FindCode, LoginStep, LoginTyped, Arrived
<1>14. CASE NoCodeCame
  BY <1>14 DEF NoCodeCame, Failing, LoginFails, Forget, LoginTyped, Arrived, ToSet
<1>15. CASE MailboxFails
  BY <1>15 DEF MailboxFails, Failing, LoginFails, Forget, LoginTyped, Arrived, ToSet
<1>16. CASE BrowserAbandoned
  BY <1>16 DEF BrowserAbandoned, LoginFails, Forget, LoginTyped, Arrived, ToSet
<1>17. CASE CodeAccepted
  BY <1>17 DEF CodeAccepted, Submit, LoginStep, LoginTyped, Arrived, ToSet
<1>18. CASE CodeRejected
  BY <1>18 DEF CodeRejected, Submit, LoginStep, LoginTyped, Arrived, ToSet
<1>19. CASE LastCodeRejected
  BY <1>19 DEF LastCodeRejected, Submit, Forget, LoginTyped, Arrived, ToSet
<1>20. CASE PhoneGate
  BY <1>20 DEF PhoneGate, StartAttempt, LoginStep, Failing, LoginFails, Forget, LoginTyped, Arrived,
     ToSet
<1>21. CASE SigninExpired
  BY <1>21 DEF SigninExpired, StartAttempt, LoginStep, Failing, LoginFails, Forget, LoginTyped,
     Arrived, ToSet
<1>22. CASE AboutYou
  BY <1>22 DEF AboutYou, LoginStep, LoginTyped, Arrived, ToSet
<1>23. CASE GivesUp
  BY <1>23 DEF GivesUp, Failing, LoginFails, Forget, LoginTyped, Arrived, ToSet
<1>24. CASE PageGate
  BY <1>24 DEF PageGate, Failing, LoginFails, Forget, LoginTyped, Arrived, ToSet
<1>25. CASE SessionSaved
  BY <1>25 DEF SessionSaved, LoginStep, LoginTyped, Arrived, ToSet
<1>26. CASE LoginsDone
  BY <1>26 DEF LoginsDone, Forget, LoginTyped, Arrived, ToSet
<1>27. CASE OrphanGivesUp
  BY <1>27 DEF OrphanGivesUp, LoginTyped, Arrived, ToSet
<1>28. ASSUME NEW m \in Mails, MailArrives(m) PROVE LoginTyped'
  BY <1>28, SMTT(30) DEF MailArrives, LoginTyped, Arrived, ToSet
<1>29. ASSUME NEW m \in Mails, OrphanRemembers(m) PROVE LoginTyped'
  BY <1>29, SMTT(30) DEF OrphanRemembers, LoginTyped, Arrived, ToSet
<1>30. CASE UNCHANGED loginVars
  BY <1>30 DEF loginVars, LoginTyped, Arrived, ToSet
<1> QED
  BY <1>1, <1>2, <1>3, <1>4, <1>5, <1>6, <1>7, <1>8, <1>9, <1>10, <1>11, <1>12, <1>13, <1>14, <1>15,
     <1>16, <1>17, <1>18, <1>19, <1>20, <1>21, <1>22, <1>23, <1>24, <1>25, <1>26, <1>27, <1>28,
     <1>29, <1>30 DEF LoginNext, LoginSteps

LEMMA SubmittedStep ==
  ASSUME Mailing, [LoginNext]_loginVars
  PROVE  SubmittedWereSeen'
<1> USE DEF Mailing, LoginTyped, child, checkpoint, attempt, budget, mailbox, loginHistory, loginCounts, NoDoc
<1>1. CASE LoginBegins
  BY <1>1 DEF LoginBegins, SubmittedWereSeen, Found, NewestUnseen
<1>2. CASE LoginCrash
  BY <1>2 DEF LoginCrash, Forget, SubmittedWereSeen, Found, NewestUnseen
<1>3. CASE LoginRetry
  BY <1>3 DEF LoginRetry, SubmittedWereSeen, Found, NewestUnseen
<1>4. CASE LoginAgain
  BY <1>4 DEF LoginAgain, SubmittedWereSeen, Found, NewestUnseen
<1>5. CASE LoginStopped
  BY <1>5 DEF LoginStopped, LoginFails, Forget, SubmittedWereSeen, Found, NewestUnseen
<1>6. CASE StartLogin
  BY <1>6 DEF StartLogin, LoginStep, SubmittedWereSeen, Found, NewestUnseen
<1>7. CASE Bootstrap
  BY <1>7 DEF Bootstrap, AtForm, LoginStep, Failing, LoginFails, Forget, SubmittedWereSeen, Found,
     NewestUnseen
<1>8. CASE OpenForm
  BY <1>8 DEF OpenForm, AtForm, LoginStep, Failing, LoginFails, Forget, SubmittedWereSeen, Found,
     NewestUnseen
<1>9. CASE RateLimited
  BY <1>9 DEF RateLimited, StartAttempt, LoginStep, Failing, LoginFails, Forget, SubmittedWereSeen,
     Found, NewestUnseen
<1>10. CASE Authorize
  BY <1>10 DEF Authorize, CodeRequested, FreshMails, AsksForCode, LoginStep, SubmittedWereSeen,
     Found, NewestUnseen
<1>11. CASE EmailForm
  BY <1>11 DEF EmailForm, CodeRequested, FreshMails, AsksForCode, LoginStep, SubmittedWereSeen,
     Found, NewestUnseen
<1>12. CASE SendCode
  BY <1>12 DEF SendCode, CodeRequested, FreshMails, LoginStep, SubmittedWereSeen, Found,
     NewestUnseen
<1>13. CASE FindCode
  BY <1>13 DEF FindCode, LoginStep, Remember, SubmittedWereSeen, Found, NewestUnseen
<1>14. CASE NoCodeCame
  BY <1>14 DEF NoCodeCame, Failing, LoginFails, Forget, SubmittedWereSeen, Found, NewestUnseen
<1>15. CASE MailboxFails
  BY <1>15 DEF MailboxFails, Failing, LoginFails, Forget, SubmittedWereSeen, Found, NewestUnseen
<1>16. CASE BrowserAbandoned
  BY <1>16 DEF BrowserAbandoned, LoginFails, Forget, SubmittedWereSeen, Found, NewestUnseen
<1>17. CASE CodeAccepted
  BY <1>17 DEF CodeAccepted, Submit, LoginStep, SubmittedWereSeen, Found, NewestUnseen
<1>18. CASE CodeRejected
  BY <1>18 DEF CodeRejected, Submit, LoginStep, SubmittedWereSeen, Found, NewestUnseen
<1>19. CASE LastCodeRejected
  BY <1>19 DEF LastCodeRejected, Submit, Forget, SubmittedWereSeen, Found, NewestUnseen
<1>20. CASE PhoneGate
  BY <1>20 DEF PhoneGate, StartAttempt, LoginStep, Failing, LoginFails, Forget, SubmittedWereSeen,
     Found, NewestUnseen
<1>21. CASE SigninExpired
  BY <1>21 DEF SigninExpired, StartAttempt, LoginStep, Failing, LoginFails, Forget,
     SubmittedWereSeen, Found, NewestUnseen
<1>22. CASE AboutYou
  BY <1>22 DEF AboutYou, LoginStep, SubmittedWereSeen, Found, NewestUnseen
<1>23. CASE GivesUp
  BY <1>23 DEF GivesUp, Failing, LoginFails, Forget, SubmittedWereSeen, Found, NewestUnseen
<1>24. CASE PageGate
  BY <1>24 DEF PageGate, Failing, LoginFails, Forget, SubmittedWereSeen, Found, NewestUnseen
<1>25. CASE SessionSaved
  BY <1>25 DEF SessionSaved, LoginStep, SubmittedWereSeen, Found, NewestUnseen
<1>26. CASE LoginsDone
  BY <1>26 DEF LoginsDone, Forget, SubmittedWereSeen, Found, NewestUnseen
<1>27. CASE OrphanGivesUp
  BY <1>27 DEF OrphanGivesUp, SubmittedWereSeen, Found, NewestUnseen
<1>28. ASSUME NEW m \in Mails, MailArrives(m) PROVE SubmittedWereSeen'
  BY <1>28 DEF MailArrives, SubmittedWereSeen, Found, NewestUnseen
<1>29. ASSUME NEW m \in Mails, OrphanRemembers(m) PROVE SubmittedWereSeen'
  BY <1>29 DEF OrphanRemembers, SubmittedWereSeen, Found, NewestUnseen
<1>30. CASE UNCHANGED loginVars
  BY <1>30 DEF loginVars, SubmittedWereSeen, Found, NewestUnseen
<1> QED
  BY <1>1, <1>2, <1>3, <1>4, <1>5, <1>6, <1>7, <1>8, <1>9, <1>10, <1>11, <1>12, <1>13, <1>14, <1>15,
     <1>16, <1>17, <1>18, <1>19, <1>20, <1>21, <1>22, <1>23, <1>24, <1>25, <1>26, <1>27, <1>28,
     <1>29, <1>30 DEF LoginNext, LoginSteps

LEMMA AwaitedStep ==
  ASSUME Mailing, [LoginNext]_loginVars
  PROVE  LastMailIsAwaited'
<1> USE DEF Mailing, LoginTyped, child, checkpoint, attempt, budget, mailbox, loginHistory, loginCounts, NoDoc
<1>1. CASE LoginBegins
  BY <1>1 DEF LoginBegins, LastMailIsAwaited, Arrived
<1>2. CASE LoginCrash
  BY <1>2 DEF LoginCrash, Forget, LastMailIsAwaited, Arrived
<1>3. CASE LoginRetry
  BY <1>3 DEF LoginRetry, LastMailIsAwaited, Arrived
<1>4. CASE LoginAgain
  BY <1>4 DEF LoginAgain, LastMailIsAwaited, Arrived
<1>5. CASE LoginStopped
  BY <1>5 DEF LoginStopped, LoginFails, Forget, LastMailIsAwaited, Arrived
<1>6. CASE StartLogin
  BY <1>6 DEF StartLogin, LoginStep, LastMailIsAwaited, Arrived
<1>7. CASE Bootstrap
  BY <1>7 DEF Bootstrap, AtForm, LoginStep, Failing, LoginFails, Forget, LastMailIsAwaited, Arrived
<1>8. CASE OpenForm
  BY <1>8 DEF OpenForm, AtForm, LoginStep, Failing, LoginFails, Forget, LastMailIsAwaited, Arrived
<1>9. CASE RateLimited
  BY <1>9 DEF RateLimited, StartAttempt, LoginStep, Failing, LoginFails, Forget, LastMailIsAwaited,
     Arrived
<1>10. CASE Authorize
  BY <1>10 DEF Authorize, CodeRequested, FreshMails, AsksForCode, LoginStep, LastMailIsAwaited,
     Arrived
<1>11. CASE EmailForm
  BY <1>11 DEF EmailForm, CodeRequested, FreshMails, AsksForCode, LoginStep, LastMailIsAwaited,
     Arrived
<1>12. CASE SendCode
  BY <1>12 DEF SendCode, CodeRequested, FreshMails, LoginStep, LastMailIsAwaited, Arrived
<1>13. CASE FindCode
  BY <1>13 DEF FindCode, LoginStep, Remember, LastMailIsAwaited, Arrived
<1>14. CASE NoCodeCame
  BY <1>14 DEF NoCodeCame, Failing, LoginFails, Forget, LastMailIsAwaited, Arrived
<1>15. CASE MailboxFails
  BY <1>15 DEF MailboxFails, Failing, LoginFails, Forget, LastMailIsAwaited, Arrived
<1>16. CASE BrowserAbandoned
  BY <1>16 DEF BrowserAbandoned, LoginFails, Forget, LastMailIsAwaited, Arrived
<1>17. CASE CodeAccepted
  BY <1>17 DEF CodeAccepted, Submit, LoginStep, LastMailIsAwaited, Arrived
<1>18. CASE CodeRejected
  BY <1>18 DEF CodeRejected, Submit, LoginStep, LastMailIsAwaited, Arrived
<1>19. CASE LastCodeRejected
  BY <1>19 DEF LastCodeRejected, Submit, Forget, LastMailIsAwaited, Arrived
<1>20. CASE PhoneGate
  BY <1>20 DEF PhoneGate, StartAttempt, LoginStep, Failing, LoginFails, Forget, LastMailIsAwaited,
     Arrived
<1>21. CASE SigninExpired
  BY <1>21 DEF SigninExpired, StartAttempt, LoginStep, Failing, LoginFails, Forget,
     LastMailIsAwaited, Arrived
<1>22. CASE AboutYou
  BY <1>22 DEF AboutYou, LoginStep, LastMailIsAwaited, Arrived
<1>23. CASE GivesUp
  BY <1>23 DEF GivesUp, Failing, LoginFails, Forget, LastMailIsAwaited, Arrived
<1>24. CASE PageGate
  BY <1>24 DEF PageGate, Failing, LoginFails, Forget, LastMailIsAwaited, Arrived
<1>25. CASE SessionSaved
  BY <1>25 DEF SessionSaved, LoginStep, LastMailIsAwaited, Arrived
<1>26. CASE LoginsDone
  BY <1>26 DEF LoginsDone, Forget, LastMailIsAwaited, Arrived
<1>27. CASE OrphanGivesUp
  BY <1>27 DEF OrphanGivesUp, LastMailIsAwaited, Arrived
<1>28. ASSUME NEW m \in Mails, MailArrives(m) PROVE LastMailIsAwaited'
  BY <1>28 DEF MailArrives, LastMailIsAwaited, Arrived
<1>29. ASSUME NEW m \in Mails, OrphanRemembers(m) PROVE LastMailIsAwaited'
  BY <1>29 DEF OrphanRemembers, LastMailIsAwaited, Arrived
<1>30. CASE UNCHANGED loginVars
  BY <1>30 DEF loginVars, LastMailIsAwaited, Arrived
<1> QED
  BY <1>1, <1>2, <1>3, <1>4, <1>5, <1>6, <1>7, <1>8, <1>9, <1>10, <1>11, <1>12, <1>13, <1>14, <1>15,
     <1>16, <1>17, <1>18, <1>19, <1>20, <1>21, <1>22, <1>23, <1>24, <1>25, <1>26, <1>27, <1>28,
     <1>29, <1>30 DEF LoginNext, LoginSteps

LEMMA StartsStep ==
  ASSUME StartsLeft, [LoginNext]_loginVars
  PROVE  StartsLeft'
<1> USE MinOfTwo DEF child, checkpoint, attempt, budget, mailbox, loginHistory, loginCounts, PhoneRecycles, SigninRecycles, RateDelays
<1>1. CASE LoginBegins
  BY <1>1 DEF LoginBegins, StartsLeft, DelaysAfterOne, CountedAttempts
<1>2. CASE LoginCrash
  BY <1>2 DEF LoginCrash, Forget, StartsLeft, DelaysAfterOne, CountedAttempts
<1>3. CASE LoginRetry
  BY <1>3 DEF LoginRetry, StartsLeft, DelaysAfterOne, CountedAttempts
<1>4. CASE LoginAgain
  BY <1>4 DEF LoginAgain, StartsLeft, DelaysAfterOne, CountedAttempts
<1>5. CASE LoginStopped
  BY <1>5 DEF LoginStopped, LoginFails, Forget, StartsLeft, DelaysAfterOne, CountedAttempts
<1>6. CASE StartLogin
  BY <1>6 DEF StartLogin, LoginStep, StartsLeft, DelaysAfterOne, CountedAttempts
<1>7. CASE Bootstrap
  BY <1>7 DEF Bootstrap, AtForm, LoginStep, Failing, LoginFails, Forget, StartsLeft, DelaysAfterOne,
     CountedAttempts
<1>8. CASE OpenForm
  BY <1>8 DEF OpenForm, AtForm, LoginStep, Failing, LoginFails, Forget, StartsLeft, DelaysAfterOne,
     CountedAttempts
<1>9. CASE RateLimited
  BY <1>9 DEF RateLimited, StartAttempt, LoginStep, Failing, LoginFails, Forget, StartsLeft,
     DelaysAfterOne, CountedAttempts
<1>10. CASE Authorize
  BY <1>10 DEF Authorize, CodeRequested, FreshMails, AsksForCode, LoginStep, StartsLeft,
     DelaysAfterOne, CountedAttempts
<1>11. CASE EmailForm
  BY <1>11 DEF EmailForm, CodeRequested, FreshMails, AsksForCode, LoginStep, StartsLeft,
     DelaysAfterOne, CountedAttempts
<1>12. CASE SendCode
  BY <1>12 DEF SendCode, CodeRequested, FreshMails, LoginStep, StartsLeft, DelaysAfterOne,
     CountedAttempts
<1>13. CASE FindCode
  BY <1>13 DEF FindCode, LoginStep, Remember, StartsLeft, DelaysAfterOne, CountedAttempts
<1>14. CASE NoCodeCame
  BY <1>14 DEF NoCodeCame, Failing, LoginFails, Forget, StartsLeft, DelaysAfterOne, CountedAttempts
<1>15. CASE MailboxFails
  BY <1>15 DEF MailboxFails, Failing, LoginFails, Forget, StartsLeft, DelaysAfterOne,
     CountedAttempts
<1>16. CASE BrowserAbandoned
  BY <1>16 DEF BrowserAbandoned, LoginFails, Forget, StartsLeft, DelaysAfterOne, CountedAttempts
<1>17. CASE CodeAccepted
  BY <1>17 DEF CodeAccepted, Submit, LoginStep, StartsLeft, DelaysAfterOne, CountedAttempts
<1>18. CASE CodeRejected
  BY <1>18 DEF CodeRejected, Submit, LoginStep, StartsLeft, DelaysAfterOne, CountedAttempts
<1>19. CASE LastCodeRejected
  BY <1>19 DEF LastCodeRejected, Submit, Forget, StartsLeft, DelaysAfterOne, CountedAttempts
<1>20. CASE PhoneGate
  BY <1>20 DEF PhoneGate, StartAttempt, LoginStep, Failing, LoginFails, Forget, StartsLeft,
     DelaysAfterOne, CountedAttempts
<1>21. CASE SigninExpired
  BY <1>21 DEF SigninExpired, StartAttempt, LoginStep, Failing, LoginFails, Forget, StartsLeft,
     DelaysAfterOne, CountedAttempts
<1>22. CASE AboutYou
  BY <1>22 DEF AboutYou, LoginStep, StartsLeft, DelaysAfterOne, CountedAttempts
<1>23. CASE GivesUp
  BY <1>23 DEF GivesUp, Failing, LoginFails, Forget, StartsLeft, DelaysAfterOne, CountedAttempts
<1>24. CASE PageGate
  BY <1>24 DEF PageGate, Failing, LoginFails, Forget, StartsLeft, DelaysAfterOne, CountedAttempts
<1>25. CASE SessionSaved
  BY <1>25 DEF SessionSaved, LoginStep, StartsLeft, DelaysAfterOne, CountedAttempts
<1>26. CASE LoginsDone
  BY <1>26 DEF LoginsDone, Forget, StartsLeft, DelaysAfterOne, CountedAttempts
<1>27. CASE OrphanGivesUp
  BY <1>27 DEF OrphanGivesUp, StartsLeft, DelaysAfterOne, CountedAttempts
<1>28. ASSUME NEW m \in Mails, MailArrives(m) PROVE StartsLeft'
  BY <1>28 DEF MailArrives, StartsLeft, DelaysAfterOne, CountedAttempts
<1>29. ASSUME NEW m \in Mails, OrphanRemembers(m) PROVE StartsLeft'
  BY <1>29 DEF OrphanRemembers, StartsLeft, DelaysAfterOne, CountedAttempts
<1>30. CASE UNCHANGED loginVars
  BY <1>30 DEF loginVars, StartsLeft, DelaysAfterOne, CountedAttempts
<1> QED
  BY <1>1, <1>2, <1>3, <1>4, <1>5, <1>6, <1>7, <1>8, <1>9, <1>10, <1>11, <1>12, <1>13, <1>14, <1>15,
     <1>16, <1>17, <1>18, <1>19, <1>20, <1>21, <1>22, <1>23, <1>24, <1>25, <1>26, <1>27, <1>28,
     <1>29, <1>30 DEF LoginNext, LoginSteps

LoginInv == Mailing /\ StartsLeft

LEMMA LoginInvInit == LoginInit => LoginInv
<1> SUFFICES ASSUME LoginInit PROVE LoginInv
  OBVIOUS
<1>1. LoginTyped
  BY DEF LoginInit, LoginTyped, Arrived, ToSet, NoDoc, NoMail
<1>2. SubmittedWereSeen /\ LastMailIsAwaited
  BY DEF LoginInit, SubmittedWereSeen, LastMailIsAwaited
<1>3. StartsLeft
  BY DEF LoginInit, StartsLeft, PhoneRecycles, SigninRecycles, RateDelays
<1> QED
  BY <1>1, <1>2, <1>3 DEF LoginInv, Mailing

LEMMA LoginInvStep == LoginInv /\ [LoginNext]_loginVars => LoginInv'
BY LoginTypes, SubmittedStep, AwaitedStep, StartsStep DEF LoginInv, Mailing

LEMMA LoginInvariant == LoginSpec => []LoginInv
BY LoginInvInit, LoginInvStep, PTL DEF LoginSpec

LEMMA LoginInvMeans == LoginInv => AttemptsAreBounded
BY DEF LoginInv, StartsLeft, AttemptsAreBounded, PhoneRecycles, SigninRecycles, RateDelays

\* However the server mixes its phone gates, expired sign-ins and rate limits
\* (login_existing_account_for_token and its three ways to start over), a
\* login starts over a bounded number of times.
THEOREM StartsAreBounded == LoginSpec => []AttemptsAreBounded
BY LoginInvMeans, LoginInvariant, PTL

LEMMA LargestExists ==
  ASSUME NEW n \in Nat, NEW S \in SUBSET (1..n), S # {}
  PROVE  \E i \in S : \A k \in S : k <= i
<1> DEFINE T == {n - i : i \in S}
<1>1. T \subseteq Nat /\ T # {}
  <2>1. \A i \in S : i \in 1..n /\ n - i \in Nat
    OBVIOUS
  <2> QED
    BY <2>1
<1>2. PICK x \in T : \A y \in T : ~(<<y, x>> \in OpToRel(<, Nat))
  BY <1>1, NatLessThanWellFounded, WFMin
<1>3. PICK i \in S : x = n - i
  OBVIOUS
<1>4. ASSUME NEW k \in S PROVE k <= i
  <2>1. n - k \in T
    OBVIOUS
  <2>2. ~(<<n - k, n - i>> \in OpToRel(<, Nat))
    BY <1>2, <1>3, <2>1
  <2>3. ~(n - k < n - i)
    BY <2>2 DEF OpToRel
  <2> QED
    BY <2>3
<1> QED
  BY <1>4

\* When a look at the mailbox shows nothing, the mail asked for last has not
\* come or its code was tried.
LEMMA NothingFound ==
  ASSUME Mailing, loginAt = "wait", Found = {}
  PROVE  requests \notin Arrived \/ requests \in tried
<1> SUFFICES ASSUME requests \in Arrived, requests \notin tried PROVE FALSE
  OBVIOUS
<1>1. requests \in Usable
  BY DEF Mailing, LastMailIsAwaited, LoginTyped, Usable
<1>2. CASE provider = "icloud"
  <2> DEFINE new == {i \in DOMAIN inbox : inbox[i] \in Usable \ doc.seen}
  <2>1. requests \notin doc.seen
    BY <1>2 DEF Mailing, LastMailIsAwaited
  <2>2. new # {} /\ new \subseteq 1..Len(inbox) /\ Len(inbox) \in Nat
    BY <1>1, <2>1 DEF Mailing, LoginTyped, Arrived, ToSet
  <2>3. PICK i \in new : \A k \in new : k <= i
    BY <2>2, LargestExists
  <2>4. inbox[i] \in NewestUnseen
    BY <2>3 DEF NewestUnseen
  <2> QED
    BY <1>2, <2>4 DEF Found
<1>3. CASE provider # "icloud"
  <2>1. \A k \in Arrived : k <= requests
    BY DEF Mailing, LoginTyped
  <2> QED
    BY <1>1, <1>3, <2>1 DEF Found, NewestByDate
<1> QED
  BY <1>2, <1>3

LEMMA TimeoutStep ==
  LoginInv /\ [LoginNext]_loginVars
    => [failure' = "noMail" /\ failure # "noMail"
          => requests \notin Arrived \/ requests \in tried]_loginVars
<1> SUFFICES ASSUME LoginInv, LoginNext, failure' = "noMail", failure # "noMail"
             PROVE  requests \notin Arrived \/ requests \in tried
  BY DEF loginVars
<1> USE DEF Failing, LoginFails, LoginStep
<1>1. CASE NoCodeCame
  BY <1>1, NothingFound DEF NoCodeCame, LoginInv
<1>2. CASE LoginBegins \/ LoginCrash \/ LoginRetry \/ LoginAgain \/ LoginStopped \/ OrphanGivesUp
  BY <1>2 DEF LoginBegins, LoginCrash, LoginRetry, LoginAgain, LoginStopped, OrphanGivesUp
<1>3. CASE StartLogin \/ Bootstrap \/ OpenForm \/ RateLimited \/ Authorize \/ EmailForm \/ SendCode
  BY <1>3 DEF StartLogin, Bootstrap, OpenForm, RateLimited, Authorize, EmailForm, SendCode,
     AtForm, StartAttempt, CodeRequested, AsksForCode
<1>4. CASE FindCode \/ MailboxFails \/ BrowserAbandoned \/ CodeAccepted \/ CodeRejected
  BY <1>4 DEF FindCode, MailboxFails, BrowserAbandoned, CodeAccepted, CodeRejected
<1>5. CASE LastCodeRejected \/ PhoneGate \/ SigninExpired \/ AboutYou \/ GivesUp \/ PageGate
  BY <1>5 DEF LastCodeRejected, PhoneGate, SigninExpired, AboutYou, GivesUp, PageGate,
     StartAttempt
<1>6. CASE SessionSaved \/ LoginsDone
  BY <1>6 DEF SessionSaved, LoginsDone
<1>7. ASSUME NEW m \in Mails, MailArrives(m) \/ OrphanRemembers(m) PROVE FALSE
  BY <1>7 DEF MailArrives, OrphanRemembers
<1> QED
  BY <1>1, <1>2, <1>3, <1>4, <1>5, <1>6, <1>7 DEF LoginNext, LoginSteps

LEMMA SubmitStep ==
  LoginInv => [provider = "icloud" /\ ~overwritten /\ Submit => code \notin submitted]_loginVars
BY DEF LoginInv, Mailing, SubmittedWereSeen, Submit

\* A code of the forwarding mailbox is submitted once in a run, and a login
\* gives up on a mail only when it has not come or its code was refused
\* (IcloudImapProvider and _remember_uid), whatever is lost or arrives late.
THEOREM CodesAreNotWasted == LoginSpec => LoginCodes
BY SubmitStep, TimeoutStep, LoginInvariant, PTL
   DEF LoginSpec, LoginCodes, CodesAreUsedOnce, TimeoutMeansNoMail

(***************************************************************************)
(* A login comes to its end, however often it starts over: what is left of *)
(* it is, in this order, the logins to save, the starts its budgets allow, *)
(* the pages of the attempt, and the codes not tried.                      *)
(***************************************************************************)
Attempting == loginAt \notin {"off", "between"}

LoginsLeft ==
  IF loginAt = "off" THEN 0
  ELSE IF loginAt = "between" THEN 2 * (Logins - doc.saved) + 1 ELSE 2 * (Logins - doc.saved)

StartsOver == signinLeft + delaysLeft + phoneLeft * (1 + RateDelays)

PagesLeft ==
  IF loginAt = "bootstrap" THEN 5 ELSE IF loginAt = "authorize" THEN 4
  ELSE IF loginAt = "send" THEN 3 ELSE IF loginAt \in {"wait", "validate"} THEN 2
  ELSE IF loginAt = "profile" THEN 1 ELSE 0

Untried == (1..requests) \ tried

CodesLeft ==
  IF loginAt = "wait" THEN 2 * Cardinality(Untried) + 1
  ELSE IF loginAt = "validate" THEN 2 * Cardinality(Untried) ELSE 0

\* The parts are compared in their order.
LoginIsNearer ==
  \/ LoginsLeft' < LoginsLeft
  \/ LoginsLeft' = LoginsLeft /\ StartsOver' < StartsOver
  \/ LoginsLeft' = LoginsLeft /\ StartsOver' = StartsOver /\ PagesLeft' < PagesLeft
  \/ /\ LoginsLeft' = LoginsLeft /\ StartsOver' = StartsOver /\ PagesLeft' = PagesLeft
     /\ CodesLeft' < CodesLeft

LoginIsAsNear ==
  /\ LoginsLeft' = LoginsLeft /\ StartsOver' = StartsOver /\ PagesLeft' = PagesLeft
  /\ CodesLeft' = CodesLeft

LoginIsMeasured ==
  LoginsLeft \in Nat /\ StartsOver \in Nat /\ PagesLeft \in Nat /\ CodesLeft \in Nat

\* Every step of a login brings it nearer to its end, and nothing else takes
\* it back but the beginning of another run.
LoginAdvances ==
  [][/\ LoginSteps => LoginIsNearer
     /\ ~LoginBegins => LoginIsNearer \/ LoginIsAsNear]_loginVars

\* At most two logins are saved, and the code in hand was not tried before.
SavedAreCounted ==
  /\ storedDoc.saved \in 0..Logins
  /\ orphan # NoDoc => orphan.saved = 0
  /\ loginAt # "off" => doc.saved \in 0..Logins
  /\ Attempting => doc.saved < Logins
  /\ loginAt = "validate" => code \in Untried

LEMMA SavedInit == LoginInit => SavedAreCounted
BY DEF LoginInit, SavedAreCounted, Attempting, Logins, NoDoc

LEMMA UntriedAreFinite ==
  ASSUME LoginTyped
  PROVE  IsFiniteSet(Untried) /\ Cardinality(Untried) \in Nat
<1>1. requests \in Int /\ IsFiniteSet(1..requests)
  BY FS_Interval DEF LoginTyped
<1>2. IsFiniteSet(Untried)
  BY <1>1, FS_Difference DEF Untried
<1> QED
  BY <1>2, FS_CardinalityType

LEMMA LoginMeasured == LoginInv /\ SavedAreCounted => LoginIsMeasured
<1> SUFFICES ASSUME LoginInv, SavedAreCounted PROVE LoginIsMeasured
  OBVIOUS
<1>1. LoginsLeft \in Nat
  BY DEF SavedAreCounted, Attempting, LoginsLeft, Logins
<1>2. StartsOver \in Nat
  BY DEF LoginInv, StartsLeft, StartsOver, PhoneRecycles, SigninRecycles, RateDelays
<1>3. PagesLeft \in Nat
  BY DEF PagesLeft
<1>4. CodesLeft \in Nat
  BY UntriedAreFinite DEF LoginInv, Mailing, CodesLeft
<1> QED
  BY <1>1, <1>2, <1>3, <1>4 DEF LoginIsMeasured

\* What a step of a login does to what is left of it.
Ended == loginAt # "off" /\ loginAt' = "off"
Started == loginAt = "between" /\ loginAt' = "bootstrap" /\ doc.saved < Logins /\ doc' = doc
StartedOver ==
  Attempting /\ loginAt' = "bootstrap" /\ doc' = doc /\ StartsOver' < StartsOver
Turned ==
  /\ Attempting /\ loginAt' \in {"authorize", "send", "wait", "profile", "session"} /\ doc' = doc
  /\ UNCHANGED budget /\ PagesLeft' < PagesLeft
Looked ==
  /\ loginAt = "wait" /\ loginAt' = "validate" /\ doc'.saved = doc.saved
  /\ UNCHANGED <<budget, requests, tried>> /\ code' \in Untried
Rejected ==
  /\ loginAt = "validate" /\ loginAt' = "wait" /\ doc' = doc
  /\ UNCHANGED <<budget, requests>> /\ tried' = tried \cup {code}
Stored ==
  /\ loginAt = "session" /\ loginAt' = "between"
  /\ doc'.saved \in 0..Logins /\ doc.saved < doc'.saved

LEMMA LoginShape ==
  ASSUME LoginInv, SavedAreCounted, LoginSteps
  PROVE  Ended \/ Started \/ StartedOver \/ Turned \/ Looked \/ Rejected \/ Stored
<1> USE DEF Attempting, checkpoint, mailbox, child
<1>1. CASE StartLogin
  BY <1>1 DEF StartLogin, Started
<1>2. CASE Bootstrap \/ OpenForm
  BY <1>2 DEF Bootstrap, OpenForm, AtForm, Failing, LoginFails, Turned, PagesLeft, Ended
<1>3. CASE Authorize \/ EmailForm \/ SendCode
  BY <1>3 DEF Authorize, EmailForm, SendCode, CodeRequested, AsksForCode, Turned, PagesLeft
<1>4. CASE FindCode
  <2>1. PICK m \in Found :
          /\ code' = m
          /\ IF provider = "icloud" THEN Remember(m) ELSE UNCHANGED checkpoint
    BY <1>4 DEF FindCode
  <2>2. m \in Untried
    BY FoundIsUsable DEF LoginInv, Mailing, LoginTyped, Untried
  <2>3. doc'.saved = doc.saved
    BY <2>1 DEF Remember, LoginInv, Mailing, LoginTyped
  <2> QED
    BY <1>4, <2>1, <2>2, <2>3 DEF FindCode, Looked
<1>5. CASE NoCodeCame \/ MailboxFails \/ BrowserAbandoned \/ GivesUp \/ PageGate
  BY <1>5 DEF NoCodeCame, MailboxFails, BrowserAbandoned, GivesUp, PageGate, Failing,
     LoginFails, Ended
<1>6. CASE LastCodeRejected \/ LoginsDone
  BY <1>6 DEF LastCodeRejected, Submit, LoginsDone, Ended
<1>7. CASE CodeAccepted \/ AboutYou
  BY <1>7 DEF CodeAccepted, Submit, AboutYou, Turned, PagesLeft
<1>8. CASE CodeRejected
  BY <1>8 DEF CodeRejected, Submit, Rejected
<1>9. CASE RateLimited \/ PhoneGate \/ SigninExpired
  <2> USE DEF LoginInv, StartsLeft, PhoneRecycles, SigninRecycles, RateDelays
  <2>1. CASE loginAt' = "off"
    BY <1>9, <2>1 DEF RateLimited, PhoneGate, SigninExpired, Ended
  <2>2. CASE RateLimited /\ loginAt' # "off"
    BY <2>2 DEF RateLimited, Failing, LoginFails, StartAttempt, DelaysAfterOne, StartedOver,
       StartsOver
  <2>3. CASE PhoneGate /\ loginAt' # "off"
    BY <2>3 DEF PhoneGate, Failing, LoginFails, StartAttempt, StartedOver, StartsOver
  <2>4. CASE SigninExpired /\ loginAt' # "off"
    BY <2>4 DEF SigninExpired, Failing, LoginFails, StartAttempt, StartedOver, StartsOver
  <2> QED
    BY <1>9, <2>1, <2>2, <2>3, <2>4
<1>10. CASE SessionSaved
  BY <1>10 DEF SessionSaved, Stored, SavedAreCounted, Logins, LoginInv, Mailing, LoginTyped
<1> QED
  BY <1>1, <1>2, <1>3, <1>4, <1>5, <1>6, <1>7, <1>8, <1>9, <1>10 DEF LoginSteps

LEMMA LoginGoesOn ==
  ASSUME LoginInv, SavedAreCounted, LoginSteps
  PROVE  LoginIsNearer
<1> USE DEF LoginIsNearer, LoginsLeft, SavedAreCounted, Attempting, Logins
<1>1. CASE Ended \/ Started \/ Stored
  BY <1>1 DEF Ended, Started, Stored
<1>2. CASE StartedOver
  BY <1>2 DEF StartedOver
<1>3. CASE Turned
  BY <1>3 DEF Turned, budget, StartsOver
<1>4. CASE Looked
  <2>1. Untried' = Untried /\ Cardinality(Untried) \in Nat
    BY <1>4, UntriedAreFinite DEF Looked, Untried, LoginInv, Mailing
  <2> QED
    BY <1>4, <2>1 DEF Looked, budget, StartsOver, PagesLeft, CodesLeft
<1>5. CASE Rejected
  <2>1. Untried' = Untried \ {code} /\ code \in Untried
    BY <1>5 DEF Rejected, Untried
  <2>2. Cardinality(Untried') = Cardinality(Untried) - 1 /\ Cardinality(Untried) \in Nat
    BY <2>1, UntriedAreFinite, FS_RemoveElement DEF LoginInv, Mailing
  <2> QED
    BY <1>5, <2>2 DEF Rejected, budget, StartsOver, PagesLeft, CodesLeft
<1> QED
  BY <1>1, <1>2, <1>3, <1>4, <1>5, LoginShape

\* What the checkpoints become.
LEMMA LoginStores ==
  ASSUME LoginInv, SavedAreCounted, LoginSteps
  PROVE  /\ storedDoc' # storedDoc => storedDoc' = doc' /\ loginAt' # "off"
         /\ orphan' # NoDoc => orphan'.saved = 0
<1> USE DEF LoginInv, Mailing, LoginTyped, SavedAreCounted, checkpoint, child
<1>1. CASE StartLogin \/ Bootstrap \/ OpenForm \/ Authorize \/ EmailForm \/ SendCode
  BY <1>1 DEF StartLogin, Bootstrap, OpenForm, AtForm, Authorize, EmailForm, SendCode,
     CodeRequested, AsksForCode, Failing, LoginFails, LoginStep
<1>2. CASE FindCode
  BY <1>2 DEF FindCode, Remember, LoginStep
<1>3. CASE BrowserAbandoned
  BY <1>3 DEF BrowserAbandoned, InBrowser, LoginFails
<1>4. CASE NoCodeCame \/ MailboxFails \/ GivesUp \/ PageGate \/ LastCodeRejected \/ LoginsDone
  BY <1>4 DEF NoCodeCame, MailboxFails, GivesUp, PageGate, LastCodeRejected, LoginsDone, Failing,
     LoginFails
<1>5. CASE CodeAccepted \/ AboutYou \/ CodeRejected
  BY <1>5 DEF CodeAccepted, AboutYou, CodeRejected, LoginStep
<1>6. CASE RateLimited \/ PhoneGate \/ SigninExpired
  BY <1>6 DEF RateLimited, PhoneGate, SigninExpired, Failing, LoginFails, LoginStep
<1>7. CASE SessionSaved
  BY <1>7 DEF SessionSaved, LoginStep
<1> QED
  BY <1>1, <1>2, <1>3, <1>4, <1>5, <1>6, <1>7 DEF LoginSteps

LEMMA SavedStep ==
  ASSUME LoginInv, SavedAreCounted, [LoginNext]_loginVars
  PROVE  SavedAreCounted'
<1> USE DEF LoginInv, Mailing, LoginTyped, SavedAreCounted, Attempting, Logins
<1>1. CASE LoginSteps
  <2>1. /\ loginAt' # "off" => doc'.saved \in 0..Logins
        /\ Attempting' => doc'.saved < Logins
        /\ loginAt' = "validate" => code' \in Untried'
    BY <1>1, LoginShape DEF Ended, Started, StartedOver, Turned, Looked, Rejected, Stored, Untried
  <2> QED
    BY <1>1, <2>1, LoginStores
<1>2. CASE LoginBegins
  BY <1>2 DEF LoginBegins
<1>3. CASE LoginCrash \/ LoginStopped
  BY <1>3 DEF LoginCrash, LoginStopped, LoginFails
<1>4. CASE LoginRetry \/ LoginAgain
  BY <1>4 DEF LoginRetry, LoginAgain, attempt, checkpoint, NoDoc
<1>5. ASSUME NEW m \in Mails, OrphanRemembers(m) PROVE SavedAreCounted'
  BY <1>5 DEF OrphanRemembers, attempt, mailbox, Untried, NoDoc
<1>6. ASSUME NEW m \in Mails, MailArrives(m) PROVE SavedAreCounted'
  BY <1>6 DEF MailArrives, attempt, checkpoint, Untried
<1>7. CASE OrphanGivesUp
  BY <1>7 DEF OrphanGivesUp, attempt, checkpoint, mailbox, Untried
<1>8. CASE UNCHANGED loginVars
  BY <1>8 DEF loginVars, attempt, checkpoint, mailbox, Untried
<1> QED
  BY <1>1, <1>2, <1>3, <1>4, <1>5, <1>6, <1>7, <1>8 DEF LoginNext

\* Each attempt has finitely many steps before it, whatever the server and
\* the mailbox do: a login ends, if only it goes on.
THEOREM LoginsComeToAnEnd == LoginSpec => []LoginIsMeasured /\ LoginAdvances
<1>1. LoginInv /\ SavedAreCounted /\ [LoginNext]_loginVars =>
        [/\ LoginSteps => LoginIsNearer
         /\ ~LoginBegins => LoginIsNearer \/ LoginIsAsNear]_loginVars
  <2> SUFFICES ASSUME LoginInv, SavedAreCounted, LoginNext
               PROVE  /\ LoginSteps => LoginIsNearer
                      /\ ~LoginBegins => LoginIsNearer \/ LoginIsAsNear
    OBVIOUS
  <2>1. LoginSteps => LoginIsNearer
    BY LoginGoesOn
  <2>2. CASE LoginCrash \/ LoginStopped
    <3>1. loginAt' = "off"
      BY <2>2 DEF LoginCrash, LoginStopped, LoginFails
    <3>2. loginAt # "off" => LoginsLeft > 0
      BY DEF SavedAreCounted, Attempting, LoginsLeft, Logins
    <3>3. UNCHANGED budget
      BY <2>2 DEF LoginCrash, LoginStopped, LoginFails
    <3>4. LoginsLeft' = 0 /\ PagesLeft' = 0 /\ CodesLeft' = 0 /\ StartsOver' = StartsOver
      BY <3>1, <3>3 DEF LoginsLeft, StartsOver, PagesLeft, CodesLeft, budget
    <3>5. CASE loginAt = "off"
      <4>1. LoginsLeft = 0 /\ PagesLeft = 0 /\ CodesLeft = 0
        BY <3>5 DEF LoginsLeft, PagesLeft, CodesLeft
      <4> QED
        BY <2>1, <3>4, <4>1 DEF LoginIsAsNear
    <3> QED
      BY <2>1, <3>2, <3>4, <3>5 DEF LoginIsNearer
  <2>3. CASE LoginRetry \/ LoginAgain \/ OrphanGivesUp \/ \E m \in Mails : MailArrives(m) \/ OrphanRemembers(m)
    <3>1. UNCHANGED <<loginAt, doc, budget, requests, tried>>
      BY <2>3 DEF LoginRetry, LoginAgain, OrphanGivesUp, MailArrives, OrphanRemembers, attempt,
         checkpoint, mailbox
    <3>2. UNCHANGED <<LoginsLeft, StartsOver, PagesLeft>>
      BY <3>1 DEF LoginsLeft, StartsOver, PagesLeft, budget
    <3>3. UNCHANGED Untried
      BY <3>1 DEF Untried
    <3>4. UNCHANGED CodesLeft
      BY <3>1, <3>3 DEF CodesLeft
    <3> QED
      BY <2>1, <3>2, <3>4 DEF LoginIsAsNear
  <2> QED
    BY <2>1, <2>2, <2>3 DEF LoginNext
<1> QED
  BY <1>1, LoginInvInit, LoginInvStep, SavedInit, SavedStep, LoginMeasured, PTL
     DEF LoginSpec, LoginAdvances

(***************************************************************************)
(* The capture of an iCloud session.                                       *)
(***************************************************************************)
ManagerTyped ==
  /\ captureOf \in [Mailboxes -> Captures \cup {0}]
  /\ activeMailbox \in Mailboxes \cup {Nobody} /\ of \in [Captures -> Mailboxes \cup {Nobody}]
  /\ shown \in [Captures -> {"none"} \cup ActiveStates \cup FinalStates]
  /\ at \in [Captures -> Places] /\ cancelEvent \subseteq Captures
  /\ cancelSeen \subseteq Mailboxes /\ disturbed \subseteq Captures

SettingsTyped ==
  /\ stored \in [Mailboxes -> Settings] /\ saverRead \in Settings /\ editorRead \in Settings
  /\ saver \in Captures \cup {0} /\ editor \in Mailboxes \cup {Nobody}
  /\ lastSaved \in [Mailboxes -> Captures \cup {0}]
  /\ mailboxEdits \in [Mailboxes -> 0..MaxMailboxEdits]
  /\ editor # Nobody => mailboxEdits[editor] < MaxMailboxEdits
  /\ overlapped \subseteq Mailboxes

\* What the manager keeps of a mailbox is about this mailbox.
CaptureRows ==
  /\ \A j \in Captures : of[j] = Nobody <=> at[j] = "none"
  /\ \A j \in Captures : at[j] \in {"list", "store"} <=> saver = j
  /\ \A m \in Mailboxes :
       /\ captureOf[m] # 0 => of[captureOf[m]] = m
       /\ m \in cancelSeen => captureOf[m] # 0
       /\ lastSaved[m] # 0 => of[lastSaved[m]] = m /\ at[lastSaved[m]] \in {"saved", "last", "done"}

CaptureTyped == ManagerTyped /\ SettingsTyped /\ CaptureRows

Alive(j) == at[j] \notin {"none", "done"}
Working(j) == Alive(j) /\ at[j] # "last"

\* A capture that began beside no other one's thread stays alone until it
\* publishes its end, and what is shown of it is its own.
AloneWhileWorking(j) ==
  /\ activeMailbox = of[j] /\ captureOf[of[j]] = j /\ shown[j] \in ActiveStates
  /\ \A i \in Captures \ {j} : ~Alive(i)
  /\ at[j] = "saved" => lastSaved[of[j]] = j

EndIsShown(j) ==
  /\ shown[j] \in FinalStates
  /\ lastSaved[of[j]] = j => shown[j] = "captured"
  /\ captureOf[of[j]] = j /\ shown[j] = "captured" => lastSaved[of[j]] = j

NoneIsLeft(j) == \A i \in Captures \ {j} : of[i] = of[j] => at[i] = "done"

Undisturbed(j) ==
  /\ Working(j) => AloneWhileWorking(j)
  /\ at[j] \in {"last", "done"} => EndIsShown(j)
  /\ at[j] # "none" /\ captureOf[of[j]] = j => NoneIsLeft(j)

UndisturbedIsItself == \A j \in Captures \ disturbed : Undisturbed(j)

\* What was read of the settings is what is stored, unless they were written since.
ReadsAreCurrent ==
  /\ saver # 0 /\ of[saver] \notin overlapped => saverRead.other = mailboxEdits[of[saver]]
  /\ editor # Nobody /\ editor \notin overlapped => editorRead.session = lastSaved[editor]

CaptureInv == CaptureTyped /\ UndisturbedIsItself /\ ReadsAreCurrent /\ SettingsAreKept

LEMMA CaptureIds == 0..MaxCaptures = Captures \cup {0} /\ 0 \notin Captures
BY HmeCaptureAssumption DEF Captures

LEMMA CaptureStates ==
  /\ {"starting", "waiting_login", "verifying", "cancelling"} \subseteq ActiveStates
  /\ {"captured", "cancelled", "failed"} \subseteq FinalStates
  /\ ActiveStates \cap FinalStates = {} /\ "none" \notin ActiveStates \cup FinalStates
BY DEF ActiveStates, FinalStates

\* What every step of a capture's thread may do to the manager.
ThreadOf(j) ==
  /\ Alive(j)
  /\ UNCHANGED <<captureOf, of, cancelEvent, cancelSeen, disturbed>>
  /\ activeMailbox' \in {activeMailbox, Nobody}
  /\ \E place \in Places \ {"none"} : at' = [at EXCEPT ![j] = place]
  /\ \/ shown' = shown
     \/ \E state \in ActiveStates \cup FinalStates :
          shown' = [shown EXCEPT ![captureOf[of[j]]] = state]
  /\ \/ lastSaved' = lastSaved
     \/ lastSaved' = [lastSaved EXCEPT ![of[j]] = j]

LEMMA ThreadShape ==
  ASSUME NEW j \in Captures, CaptureThread(j)
  PROVE  ThreadOf(j)
<1> USE CaptureStates DEF Transition, Moves, RestOfManager, hmeSettings, ThreadOf, Alive, Places
<1>1. CASE OpenWindow(j)
  BY <1>1 DEF OpenWindow
<1>2. CASE Authenticated(j)
  BY <1>2 DEF Authenticated
<1>3. CASE SessionSeen(j)
  BY <1>3 DEF SessionSeen, WindowOpen
<1>4. CASE WindowCloses(j)
  BY <1>4 DEF WindowCloses, WindowOpen
<1>5. CASE SaveBegin(j)
  BY <1>5 DEF SaveBegin
<1>6. CASE SaveList(j)
  BY <1>6 DEF SaveList
<1>7. CASE SaveStore(j)
  BY <1>7 DEF SaveStore
<1>8. CASE PublishCaptured(j)
  BY <1>8 DEF PublishCaptured
<1>9. CASE Finally(j)
  BY <1>9 DEF Finally
<1> QED
  BY <1>1, <1>2, <1>3, <1>4, <1>5, <1>6, <1>7, <1>8, <1>9 DEF CaptureThread

LEMMA ManagerTypes ==
  ASSUME ManagerTyped, CaptureRows, [CaptureNext]_captureVars
  PROVE  ManagerTyped'
<1> USE CaptureStates DEF manager, hmeSettings, Places
<1>1. ASSUME NEW m \in Mailboxes, StartCapture(m) PROVE ManagerTyped'
  BY <1>1 DEF StartCapture, ManagerTyped
<1>2. ASSUME NEW m \in Mailboxes, CancelSet(m) PROVE ManagerTyped'
  BY <1>2 DEF CancelSet, ManagerTyped
<1>3. ASSUME NEW m \in Mailboxes, CancelPublish(m) PROVE ManagerTyped'
  <2>1. shown' \in [Captures -> {"none"} \cup ActiveStates \cup FinalStates]
    BY <1>3 DEF CancelPublish, ManagerTyped
  <2>2. disturbed' \subseteq Captures
    BY <1>3 DEF CancelPublish, ManagerTyped, CaptureRows
  <2> QED
    BY <1>3, <2>1, <2>2 DEF CancelPublish, ManagerTyped
<1>4. ASSUME NEW m \in Mailboxes, EditBegin(m) PROVE ManagerTyped'
  BY <1>4 DEF EditBegin, ManagerTyped
<1>5. ASSUME NEW j \in Captures, CaptureThread(j) PROVE ManagerTyped'
  <2>1. ThreadOf(j)
    BY <1>5, ThreadShape
  <2>2. at' \in [Captures -> Places]
    BY <2>1 DEF ThreadOf, ManagerTyped
  <2>3. shown' \in [Captures -> {"none"} \cup ActiveStates \cup FinalStates]
    BY <2>1 DEF ThreadOf, ManagerTyped
  <2> QED
    BY <2>1, <2>2, <2>3 DEF ThreadOf, ManagerTyped
<1>6. CASE ShutdownCaptures
  BY <1>6 DEF ShutdownCaptures, ManagerTyped
<1>7. CASE EditEnd
  BY <1>7 DEF EditEnd, ManagerTyped
<1>8. CASE UNCHANGED captureVars
  BY <1>8 DEF captureVars, ManagerTyped
<1> QED
  BY <1>1, <1>2, <1>3, <1>4, <1>5, <1>6, <1>7, <1>8
     DEF CaptureNext, CaptureThread

LEMMA SettingsTypes ==
  ASSUME ManagerTyped, SettingsTyped, CaptureRows, [CaptureNext]_captureVars
  PROVE  SettingsTyped'
<1> USE HmeCaptureAssumption, CaptureIds DEF ManagerTyped, manager, hmeSettings, Nobody, Settings
<1>1. ASSUME NEW m \in Mailboxes, StartCapture(m) PROVE SettingsTyped'
  BY <1>1 DEF StartCapture, SettingsTyped
<1>2. ASSUME NEW m \in Mailboxes, CancelSet(m) PROVE SettingsTyped'
  BY <1>2 DEF CancelSet, SettingsTyped
<1>3. ASSUME NEW m \in Mailboxes, CancelPublish(m) PROVE SettingsTyped'
  BY <1>3 DEF CancelPublish, SettingsTyped
<1>4. ASSUME NEW m \in Mailboxes, EditBegin(m) PROVE SettingsTyped'
  BY <1>4 DEF EditBegin, SettingsTyped
<1>5. ASSUME NEW j \in Captures, OpenWindow(j) PROVE SettingsTyped'
  BY <1>5 DEF OpenWindow, Transition, Moves, RestOfManager, SettingsTyped
<1>6. ASSUME NEW j \in Captures, Authenticated(j) PROVE SettingsTyped'
  BY <1>6 DEF Authenticated, Transition, Moves, RestOfManager, SettingsTyped
<1>7. ASSUME NEW j \in Captures, SessionSeen(j) PROVE SettingsTyped'
  BY <1>7 DEF SessionSeen, WindowOpen, Transition, Moves, RestOfManager, SettingsTyped
<1>8. ASSUME NEW j \in Captures, WindowCloses(j) PROVE SettingsTyped'
  BY <1>8 DEF WindowCloses, WindowOpen, Transition, Moves, RestOfManager, SettingsTyped
<1>9. ASSUME NEW j \in Captures, SaveBegin(j) PROVE SettingsTyped'
  <2>1. of[j] \in Mailboxes
    BY <1>9 DEF SaveBegin, CaptureRows
  <2>2. saver' \in Captures \cup {0} /\ saverRead' \in [session : 0..MaxCaptures, other : 0..MaxMailboxEdits]
    BY <1>9, <2>1 DEF SaveBegin, SettingsTyped
  <2> QED
    BY <1>9, <2>2 DEF SaveBegin, SettingsTyped
<1>10. ASSUME NEW j \in Captures, SaveList(j) PROVE SettingsTyped'
  BY <1>10 DEF SaveList, Transition, Moves, RestOfManager, SettingsTyped
<1>11. ASSUME NEW j \in Captures, SaveStore(j) PROVE SettingsTyped'
  <2>1. of[j] \in Mailboxes
    BY <1>11 DEF SaveStore, CaptureRows
  <2>2. Updated(j) \in [session : 0..MaxCaptures, other : 0..MaxMailboxEdits]
    BY DEF Updated, SettingsTyped
  <2>3. stored' \in [Mailboxes -> [session : 0..MaxCaptures, other : 0..MaxMailboxEdits]]
    BY <1>11, <2>1, <2>2 DEF SaveStore, SettingsTyped
  <2>4. lastSaved' \in [Mailboxes -> Captures \cup {0}] /\ overlapped' \subseteq Mailboxes
    BY <1>11, <2>1 DEF SaveStore, SettingsTyped
  <2> QED
    BY <1>11, <2>3, <2>4 DEF SaveStore, SettingsTyped
<1>12. ASSUME NEW j \in Captures, PublishCaptured(j) PROVE SettingsTyped'
  BY <1>12 DEF PublishCaptured, Transition, Moves, RestOfManager, SettingsTyped
<1>13. ASSUME NEW j \in Captures, Finally(j) PROVE SettingsTyped'
  BY <1>13 DEF Finally, Transition, Moves, RestOfManager, SettingsTyped
<1>14. CASE ShutdownCaptures
  BY <1>14 DEF ShutdownCaptures, SettingsTyped
<1>15. CASE EditEnd
  BY <1>15 DEF EditEnd, SettingsTyped
<1>16. CASE UNCHANGED captureVars
  BY <1>16 DEF captureVars, SettingsTyped
<1> QED
  BY <1>1, <1>2, <1>3, <1>4, <1>5, <1>6, <1>7, <1>8, <1>9, <1>10, <1>11, <1>12, <1>13, <1>14, <1>15,
     <1>16
     DEF CaptureNext, CaptureThread

LEMMA CaptureRowsStep ==
  ASSUME ManagerTyped, SettingsTyped, CaptureRows, [CaptureNext]_captureVars
  PROVE  CaptureRows'
<1> USE HmeCaptureAssumption, CaptureIds DEF ManagerTyped, SettingsTyped, manager, hmeSettings, Nobody
<1>1. ASSUME NEW m \in Mailboxes, StartCapture(m) PROVE CaptureRows'
  BY <1>1 DEF StartCapture, CaptureRows
<1>2. ASSUME NEW m \in Mailboxes, CancelSet(m) PROVE CaptureRows'
  BY <1>2 DEF CancelSet, CaptureRows
<1>3. ASSUME NEW m \in Mailboxes, CancelPublish(m) PROVE CaptureRows'
  BY <1>3 DEF CancelPublish, CaptureRows
<1>4. ASSUME NEW m \in Mailboxes, EditBegin(m) PROVE CaptureRows'
  BY <1>4 DEF EditBegin, CaptureRows
<1>5. ASSUME NEW j \in Captures, OpenWindow(j) PROVE CaptureRows'
  BY <1>5 DEF OpenWindow, Transition, Moves, RestOfManager, CaptureRows
<1>6. ASSUME NEW j \in Captures, Authenticated(j) PROVE CaptureRows'
  BY <1>6 DEF Authenticated, Transition, Moves, RestOfManager, CaptureRows
<1>7. ASSUME NEW j \in Captures, SessionSeen(j) PROVE CaptureRows'
  BY <1>7 DEF SessionSeen, WindowOpen, Transition, Moves, RestOfManager, CaptureRows
<1>8. ASSUME NEW j \in Captures, WindowCloses(j) PROVE CaptureRows'
  BY <1>8 DEF WindowCloses, WindowOpen, Transition, Moves, RestOfManager, CaptureRows
<1>9. ASSUME NEW j \in Captures, SaveBegin(j) PROVE CaptureRows'
  BY <1>9 DEF SaveBegin, Transition, Moves, RestOfManager, CaptureRows
<1>10. ASSUME NEW j \in Captures, SaveList(j) PROVE CaptureRows'
  BY <1>10 DEF SaveList, Transition, Moves, RestOfManager, CaptureRows
<1>11. ASSUME NEW j \in Captures, SaveStore(j) PROVE CaptureRows'
  BY <1>11 DEF SaveStore, Updated, Transition, Moves, RestOfManager, CaptureRows
<1>12. ASSUME NEW j \in Captures, PublishCaptured(j) PROVE CaptureRows'
  BY <1>12 DEF PublishCaptured, Transition, Moves, RestOfManager, CaptureRows
<1>13. ASSUME NEW j \in Captures, Finally(j) PROVE CaptureRows'
  BY <1>13 DEF Finally, Transition, Moves, RestOfManager, CaptureRows
<1>14. CASE ShutdownCaptures
  BY <1>14 DEF ShutdownCaptures, CaptureRows
<1>15. CASE EditEnd
  BY <1>15 DEF EditEnd, CaptureRows
<1>16. CASE UNCHANGED captureVars
  BY <1>16 DEF captureVars, CaptureRows
<1> QED
  BY <1>1, <1>2, <1>3, <1>4, <1>5, <1>6, <1>7, <1>8, <1>9, <1>10, <1>11, <1>12, <1>13, <1>14, <1>15,
     <1>16
     DEF CaptureNext, CaptureThread

LEMMA ReadsStep ==
  ASSUME CaptureTyped, ReadsAreCurrent, SettingsAreKept, [CaptureNext]_captureVars
  PROVE  ReadsAreCurrent'
<1> USE HmeCaptureAssumption, CaptureIds DEF CaptureTyped, ManagerTyped, SettingsTyped, CaptureRows, manager, hmeSettings, Nobody, Settings
<1>1. ASSUME NEW m \in Mailboxes, StartCapture(m) PROVE ReadsAreCurrent'
  BY <1>1 DEF StartCapture, ReadsAreCurrent, SettingsAreKept
<1>2. ASSUME NEW m \in Mailboxes, CancelSet(m) PROVE ReadsAreCurrent'
  BY <1>2 DEF CancelSet, ReadsAreCurrent, SettingsAreKept
<1>3. ASSUME NEW m \in Mailboxes, CancelPublish(m) PROVE ReadsAreCurrent'
  BY <1>3 DEF CancelPublish, ReadsAreCurrent, SettingsAreKept
<1>4. ASSUME NEW m \in Mailboxes, EditBegin(m) PROVE ReadsAreCurrent'
  BY <1>4 DEF EditBegin, ReadsAreCurrent, SettingsAreKept
<1>5. ASSUME NEW j \in Captures, OpenWindow(j) PROVE ReadsAreCurrent'
  BY <1>5 DEF OpenWindow, Transition, Moves, RestOfManager, ReadsAreCurrent, SettingsAreKept
<1>6. ASSUME NEW j \in Captures, Authenticated(j) PROVE ReadsAreCurrent'
  BY <1>6 DEF Authenticated, Transition, Moves, RestOfManager, ReadsAreCurrent, SettingsAreKept
<1>7. ASSUME NEW j \in Captures, SessionSeen(j) PROVE ReadsAreCurrent'
  BY <1>7 DEF SessionSeen, WindowOpen, Transition, Moves, RestOfManager, ReadsAreCurrent,
     SettingsAreKept
<1>8. ASSUME NEW j \in Captures, WindowCloses(j) PROVE ReadsAreCurrent'
  BY <1>8 DEF WindowCloses, WindowOpen, Transition, Moves, RestOfManager, ReadsAreCurrent,
     SettingsAreKept
<1>9. ASSUME NEW j \in Captures, SaveBegin(j) PROVE ReadsAreCurrent'
  BY <1>9 DEF SaveBegin, Transition, Moves, RestOfManager, ReadsAreCurrent, SettingsAreKept
<1>10. ASSUME NEW j \in Captures, SaveList(j) PROVE ReadsAreCurrent'
  BY <1>10 DEF SaveList, Transition, Moves, RestOfManager, ReadsAreCurrent, SettingsAreKept
<1>11. ASSUME NEW j \in Captures, SaveStore(j) PROVE ReadsAreCurrent'
  <2>1. saver' = 0 /\ UNCHANGED <<editor, editorRead>>
    BY <1>11 DEF SaveStore
  <2>2. CASE UNCHANGED <<stored, lastSaved, overlapped>>
    BY <2>1, <2>2 DEF ReadsAreCurrent
  <2>3. CASE /\ lastSaved' = [lastSaved EXCEPT ![of[j]] = j]
             /\ overlapped' = overlapped \cup ({of[j]} \cap {editor})
    <3>1. of[j] \in Mailboxes
      BY <1>11 DEF SaveStore
    <3>2. editor \notin overlapped' => editor \notin overlapped /\ editor # of[j]
      BY <2>3
    <3>3. editor # Nobody /\ editor # of[j] => lastSaved'[editor] = lastSaved[editor]
      BY <2>3, <3>1
    <3> QED
      BY <2>1, <3>2, <3>3 DEF ReadsAreCurrent
  <2> QED
    BY <1>11, <2>2, <2>3 DEF SaveStore
<1>12. ASSUME NEW j \in Captures, PublishCaptured(j) PROVE ReadsAreCurrent'
  BY <1>12 DEF PublishCaptured, Transition, Moves, RestOfManager, ReadsAreCurrent, SettingsAreKept
<1>13. ASSUME NEW j \in Captures, Finally(j) PROVE ReadsAreCurrent'
  BY <1>13 DEF Finally, Transition, Moves, RestOfManager, ReadsAreCurrent, SettingsAreKept
<1>14. CASE ShutdownCaptures
  BY <1>14 DEF ShutdownCaptures, ReadsAreCurrent, SettingsAreKept
<1>15. CASE EditEnd
  BY <1>15 DEF EditEnd, ReadsAreCurrent, SettingsAreKept
<1>16. CASE UNCHANGED captureVars
  BY <1>16 DEF captureVars, ReadsAreCurrent, SettingsAreKept
<1> QED
  BY <1>1, <1>2, <1>3, <1>4, <1>5, <1>6, <1>7, <1>8, <1>9, <1>10, <1>11, <1>12, <1>13, <1>14, <1>15,
     <1>16
     DEF CaptureNext, CaptureThread

LEMMA SettingsStep ==
  ASSUME CaptureTyped, ReadsAreCurrent, SettingsAreKept, [CaptureNext]_captureVars
  PROVE  SettingsAreKept'
<1> USE HmeCaptureAssumption, CaptureIds DEF CaptureTyped, ManagerTyped, SettingsTyped, CaptureRows, manager, hmeSettings, Nobody, Settings
<1>1. ASSUME NEW m \in Mailboxes, StartCapture(m) PROVE SettingsAreKept'
  BY <1>1 DEF StartCapture, SettingsAreKept, ReadsAreCurrent
<1>2. ASSUME NEW m \in Mailboxes, CancelSet(m) PROVE SettingsAreKept'
  BY <1>2 DEF CancelSet, SettingsAreKept, ReadsAreCurrent
<1>3. ASSUME NEW m \in Mailboxes, CancelPublish(m) PROVE SettingsAreKept'
  BY <1>3 DEF CancelPublish, SettingsAreKept, ReadsAreCurrent
<1>4. ASSUME NEW m \in Mailboxes, EditBegin(m) PROVE SettingsAreKept'
  BY <1>4 DEF EditBegin, SettingsAreKept, ReadsAreCurrent
<1>5. ASSUME NEW j \in Captures, OpenWindow(j) PROVE SettingsAreKept'
  BY <1>5 DEF OpenWindow, Transition, Moves, RestOfManager, SettingsAreKept, ReadsAreCurrent
<1>6. ASSUME NEW j \in Captures, Authenticated(j) PROVE SettingsAreKept'
  BY <1>6 DEF Authenticated, Transition, Moves, RestOfManager, SettingsAreKept, ReadsAreCurrent
<1>7. ASSUME NEW j \in Captures, SessionSeen(j) PROVE SettingsAreKept'
  BY <1>7 DEF SessionSeen, WindowOpen, Transition, Moves, RestOfManager, SettingsAreKept,
     ReadsAreCurrent
<1>8. ASSUME NEW j \in Captures, WindowCloses(j) PROVE SettingsAreKept'
  BY <1>8 DEF WindowCloses, WindowOpen, Transition, Moves, RestOfManager, SettingsAreKept,
     ReadsAreCurrent
<1>9. ASSUME NEW j \in Captures, SaveBegin(j) PROVE SettingsAreKept'
  BY <1>9 DEF SaveBegin, Transition, Moves, RestOfManager, SettingsAreKept, ReadsAreCurrent
<1>10. ASSUME NEW j \in Captures, SaveList(j) PROVE SettingsAreKept'
  BY <1>10 DEF SaveList, Transition, Moves, RestOfManager, SettingsAreKept, ReadsAreCurrent
<1>11. ASSUME NEW j \in Captures, SaveStore(j) PROVE SettingsAreKept'
  BY <1>11 DEF SaveStore, Updated, Transition, Moves, RestOfManager, SettingsAreKept,
     ReadsAreCurrent
<1>12. ASSUME NEW j \in Captures, PublishCaptured(j) PROVE SettingsAreKept'
  BY <1>12 DEF PublishCaptured, Transition, Moves, RestOfManager, SettingsAreKept, ReadsAreCurrent
<1>13. ASSUME NEW j \in Captures, Finally(j) PROVE SettingsAreKept'
  BY <1>13 DEF Finally, Transition, Moves, RestOfManager, SettingsAreKept, ReadsAreCurrent
<1>14. CASE ShutdownCaptures
  BY <1>14 DEF ShutdownCaptures, SettingsAreKept, ReadsAreCurrent
<1>15. CASE EditEnd
  BY <1>15 DEF EditEnd, SettingsAreKept, ReadsAreCurrent
<1>16. CASE UNCHANGED captureVars
  BY <1>16 DEF captureVars, SettingsAreKept, ReadsAreCurrent
<1> QED
  BY <1>1, <1>2, <1>3, <1>4, <1>5, <1>6, <1>7, <1>8, <1>9, <1>10, <1>11, <1>12, <1>13, <1>14, <1>15,
     <1>16
     DEF CaptureNext, CaptureThread

\* A thread's step leaves what an undisturbed capture of another thread shows.
LEMMA OthersUndisturbed ==
  ASSUME CaptureTyped, UndisturbedIsItself, NEW j \in Captures, ThreadOf(j),
         NEW k \in Captures \ disturbed, k # j
  PROVE  Undisturbed(k)'
<1> USE DEF CaptureTyped, ManagerTyped, SettingsTyped
<1>1. PICK place \in Places \ {"none"} : at' = [at EXCEPT ![j] = place]
  BY DEF ThreadOf
<1>2. at'[k] = at[k] /\ of' = of /\ captureOf' = captureOf
  BY <1>1 DEF ThreadOf
<1>3. Undisturbed(k) /\ Alive(j)
  BY DEF UndisturbedIsItself, ThreadOf
<1>4. ~Working(k)
  BY <1>3 DEF Undisturbed, AloneWhileWorking
<1>5. CASE at[k] = "none"
  BY <1>2, <1>5 DEF Undisturbed, Working, Alive
<1>6. CASE at[k] \in {"last", "done"}
  <2>1. captureOf[of[k]] = k => NoneIsLeft(k) /\ of[j] # of[k]
    BY <1>3, <1>6 DEF Undisturbed, NoneIsLeft, Alive
  <2>2. of[j] \in Mailboxes /\ of[k] \in Mailboxes
    BY <1>3, <1>6 DEF Alive, CaptureRows
  <2>3. captureOf[of[j]] # k
    BY <2>1, <2>2, CaptureIds DEF CaptureRows
  <2>4. shown'[k] = shown[k]
    BY <2>3 DEF ThreadOf
  <2>5. /\ lastSaved'[of[k]] = k => lastSaved[of[k]] = k
        /\ of[j] # of[k] => lastSaved'[of[k]] = lastSaved[of[k]]
    <3>1. CASE lastSaved' = lastSaved
      BY <3>1
    <3>2. CASE lastSaved' = [lastSaved EXCEPT ![of[j]] = j]
      BY <2>2, <3>2
    <3> QED
      BY <3>1, <3>2 DEF ThreadOf
  <2>6. captureOf[of[k]] = k => \A i \in Captures \ {k} : of[i] = of[k] => at'[i] = "done"
    BY <1>1, <2>1 DEF NoneIsLeft
  <2>7. EndIsShown(k)'
    BY <1>2, <1>3, <1>6, <2>1, <2>4, <2>5 DEF Undisturbed, EndIsShown
  <2>8. (captureOf[of[k]] = k => NoneIsLeft(k))'
    BY <1>2, <2>6 DEF NoneIsLeft
  <2> QED
    BY <1>2, <1>6, <2>7, <2>8 DEF Undisturbed, Working, Alive
<1> QED
  BY <1>4, <1>5, <1>6 DEF Working, Alive

\* Neither does the step of its own thread.
LEMMA OwnStep ==
  ASSUME CaptureTyped, UndisturbedIsItself, NEW j \in Captures \ disturbed, CaptureThread(j)
  PROVE  Undisturbed(j)'
<1> USE CaptureStates DEF CaptureTyped, ManagerTyped, SettingsTyped, Moves, RestOfManager, hmeSettings
<1>1. /\ ThreadOf(j) /\ Undisturbed(j) /\ Alive(j) /\ of' = of /\ captureOf' = captureOf
      /\ \A i \in Captures \ {j} : at'[i] = at[i]
  BY ThreadShape DEF ThreadOf, UndisturbedIsItself
<1>2. (captureOf[of[j]] = j => NoneIsLeft(j)) /\ of[j] \in Mailboxes
  BY <1>1 DEF Undisturbed, Alive, CaptureRows
<1>3. captureOf'[of'[j]] = j => NoneIsLeft(j)'
  BY <1>1, <1>2 DEF NoneIsLeft
<1>4. CASE Finally(j)
  <2>1. at'[j] = "done" /\ at[j] = "last" /\ UNCHANGED <<shown, lastSaved>>
    BY <1>4 DEF Finally
  <2> QED
    BY <1>1, <1>3, <2>1 DEF Undisturbed, EndIsShown, Working, Alive
<1>5. CASE ~Finally(j)
  <2>1. /\ Working(j) /\ AloneWhileWorking(j) /\ activeMailbox' = activeMailbox
        /\ \A i \in Captures \ {j} : ~Alive(i)'
    BY <1>1, <1>5 DEF CaptureThread, OpenWindow, Authenticated, SessionSeen, WindowCloses,
       WindowOpen,
       SaveBegin, SaveList, SaveStore, PublishCaptured, Working, Alive, Undisturbed, AloneWhileWorking
  <2>2. ASSUME at'[j] # "last" PROVE at'[j] # "done" /\ AloneWhileWorking(j)'
    <3>1. /\ shown'[j] \in ActiveStates /\ at'[j] # "done"
          /\ at'[j] = "saved" => lastSaved'[of[j]] = j
      BY <1>1, <1>2, <1>5, <2>1, <2>2 DEF CaptureThread, OpenWindow, Authenticated, SessionSeen,
         WindowCloses,
         WindowOpen, SaveBegin, SaveList, SaveStore, PublishCaptured, AloneWhileWorking, Transition
    <3> QED
      BY <1>1, <2>1, <3>1 DEF AloneWhileWorking
  <2>3. ASSUME at'[j] = "last" PROVE EndIsShown(j)'
    <3>1. CASE PublishCaptured(j)
      BY <1>1, <1>2, <2>1, <3>1 DEF PublishCaptured, AloneWhileWorking, Transition, EndIsShown
    <3>2. CASE ~PublishCaptured(j)
      <4>1. shown'[j] \in {"cancelled", "failed"} /\ at[j] # "saved" /\ lastSaved' = lastSaved
        <5> USE <1>1, <1>2, <2>1, <2>3 DEF AloneWhileWorking, Transition, Places
        <5>1. CASE OpenWindow(j)
          BY <5>1 DEF OpenWindow
        <5>2. CASE Authenticated(j) \/ SessionSeen(j)
          BY <5>2 DEF Authenticated, SessionSeen
        <5>3. CASE WindowCloses(j)
          BY <5>3 DEF WindowCloses, WindowOpen
        <5>4. CASE SaveBegin(j)
          BY <5>4 DEF SaveBegin
        <5>5. CASE SaveList(j)
          BY <5>5 DEF SaveList
        <5>6. CASE SaveStore(j)
          BY <5>6 DEF SaveStore
        <5> QED
          BY <1>5, <3>2, <5>1, <5>2, <5>3, <5>4, <5>5, <5>6 DEF CaptureThread
      <4>2. lastSaved[of[j]] # j
        BY <1>2, <2>1, <4>1, CaptureIds DEF CaptureRows, Working, Alive
      <4> QED
        BY <1>1, <4>1, <4>2 DEF EndIsShown
    <3> QED
      BY <3>1, <3>2
  <2> QED
    BY <1>3, <2>2, <2>3 DEF Undisturbed, Working, Alive
<1> QED
  BY <1>4, <1>5

\* A new capture is alone, or began beside another's thread.
LEMMA StartStep ==
  ASSUME CaptureTyped, UndisturbedIsItself, NEW m \in Mailboxes, StartCapture(m)
  PROVE  UndisturbedIsItself'
<1> USE CaptureStates, CaptureIds, HmeCaptureAssumption
        DEF CaptureTyped, ManagerTyped, SettingsTyped, hmeSettings, Nobody
<1>1. PICK j \in Captures :
        /\ at[j] = "none"
        /\ captureOf' = [captureOf EXCEPT ![m] = j] /\ of' = [of EXCEPT ![j] = m]
        /\ shown' = [shown EXCEPT ![j] = "starting"] /\ at' = [at EXCEPT ![j] = "open"]
        /\ disturbed' = IF \E i \in Captures : Alive(i) THEN disturbed \cup {j} ELSE disturbed
  BY DEF StartCapture, Alive
<1>2. activeMailbox' = m /\ lastSaved' = lastSaved
  BY DEF StartCapture
<1>3. /\ at'[j] = "open" /\ of'[j] = m /\ captureOf'[m] = j /\ shown'[j] = "starting"
      /\ \A i \in Captures \ {j} : at'[i] = at[i] /\ of'[i] = of[i] /\ shown'[i] = shown[i]
      /\ \A n \in Mailboxes \ {m} : captureOf'[n] = captureOf[n]
  BY <1>1
<1>4. ASSUME j \notin disturbed' PROVE Undisturbed(j)'
  <2>1. \A i \in Captures : ~Alive(i)
    BY <1>1, <1>4
  <2>2. \A i \in Captures \ {j} : ~Alive(i)'
    BY <1>3, <2>1 DEF Alive
  <2>3. AloneWhileWorking(j)'
    BY <1>2, <1>3, <2>2 DEF AloneWhileWorking
  <2>4. NoneIsLeft(j)'
    BY <1>3, <2>1 DEF NoneIsLeft, Alive, CaptureRows
  <2> QED
    BY <1>3, <2>3, <2>4 DEF Undisturbed
<1>5. ASSUME NEW k \in Captures \ disturbed', k # j PROVE Undisturbed(k)'
  <2>1. Undisturbed(k) /\ k \notin disturbed
    BY <1>1, <1>5 DEF UndisturbedIsItself
  <2>2. at'[k] = at[k] /\ of'[k] = of[k] /\ shown'[k] = shown[k]
    BY <1>3, <1>5
  <2>3. ~Working(k)
    <3> SUFFICES ASSUME Working(k) PROVE FALSE
      OBVIOUS
    <3>1. AloneWhileWorking(k) /\ of[k] \in Mailboxes
      BY <2>1 DEF Undisturbed, Working, Alive, CaptureRows
    <3>2. ActiveCapture = k
      BY <3>1 DEF AloneWhileWorking, ActiveCapture
    <3> QED
      BY <3>1, <3>2 DEF AloneWhileWorking, StartCapture
  <2>4. CASE at[k] = "none"
    BY <2>2, <2>4 DEF Undisturbed, Working, Alive
  <2>5. CASE at[k] \in {"last", "done"}
    <3>1. of[k] \in Mailboxes /\ EndIsShown(k)
      BY <2>1, <2>5 DEF CaptureRows, Undisturbed
    <3>2. captureOf'[of[k]] = k => of[k] # m /\ captureOf[of[k]] = k
      BY <1>3, <1>5, <3>1
    <3>3. EndIsShown(k)'
      BY <1>2, <2>2, <3>1, <3>2 DEF EndIsShown
    <3>4. (captureOf[of[k]] = k => NoneIsLeft(k))'
      BY <1>3, <2>1, <2>2, <2>5, <3>2 DEF Undisturbed, NoneIsLeft
    <3> QED
      BY <2>2, <2>5, <3>3, <3>4 DEF Undisturbed, Working, Alive
  <2> QED
    BY <2>3, <2>4, <2>5 DEF Working, Alive
<1> QED
  BY <1>4, <1>5 DEF UndisturbedIsItself

\* A cancellation that is published after the end disturbs what is shown.
LEMMA PublishStep ==
  ASSUME CaptureTyped, UndisturbedIsItself, NEW m \in Mailboxes, CancelPublish(m)
  PROVE  UndisturbedIsItself'
<1> USE CaptureStates, CaptureIds
        DEF CaptureTyped, ManagerTyped, SettingsTyped, hmeSettings
<1> SUFFICES ASSUME NEW k \in Captures \ disturbed' PROVE Undisturbed(k)'
  BY DEF UndisturbedIsItself
<1>1. /\ UNCHANGED <<captureOf, of, at, activeMailbox, lastSaved>> /\ captureOf[m] \in Captures
      /\ shown' = [shown EXCEPT ![captureOf[m]] = "cancelling"]
  BY DEF CancelPublish, CaptureRows
<1>2. Undisturbed(k)
  BY DEF CancelPublish, UndisturbedIsItself
<1>3. Working(k) => AloneWhileWorking(k)'
  BY <1>1, <1>2 DEF Undisturbed, AloneWhileWorking, Alive
<1>4. ASSUME at[k] \in {"last", "done"} PROVE EndIsShown(k)'
  <2>1. EndIsShown(k)
    BY <1>2, <1>4 DEF Undisturbed
  <2>2. captureOf[m] # k
    BY <2>1 DEF CancelPublish, EndIsShown
  <2> QED
    BY <1>1, <2>1, <2>2 DEF EndIsShown
<1> QED
  BY <1>1, <1>2, <1>3, <1>4 DEF Undisturbed, NoneIsLeft, Working, Alive

LEMMA ItselfStep ==
  ASSUME CaptureTyped, UndisturbedIsItself, [CaptureNext]_captureVars
  PROVE  UndisturbedIsItself'
<1>1. ASSUME NEW m \in Mailboxes, StartCapture(m) PROVE UndisturbedIsItself'
  BY <1>1, StartStep
<1>2. ASSUME NEW m \in Mailboxes, CancelPublish(m) PROVE UndisturbedIsItself'
  BY <1>2, PublishStep
<1>3. ASSUME NEW j \in Captures, CaptureThread(j) PROVE UndisturbedIsItself'
  <2>1. ThreadOf(j) /\ disturbed' = disturbed
    BY <1>3, ThreadShape DEF ThreadOf
  <2>2. j \notin disturbed => Undisturbed(j)'
    BY <1>3, OwnStep
  <2>3. ASSUME NEW k \in Captures \ disturbed, k # j PROVE Undisturbed(k)'
    BY <1>3, <2>1, <2>3, OthersUndisturbed
  <2> QED
    BY <2>1, <2>2, <2>3 DEF UndisturbedIsItself
<1>4. ASSUME UNCHANGED <<captureOf, activeMailbox, of, shown, at, disturbed>>, EditEnd \/ lastSaved' = lastSaved
      PROVE  UndisturbedIsItself'
  <2>1. lastSaved' = lastSaved
    BY <1>4 DEF EditEnd
  <2> QED
    BY <1>4, <2>1 DEF UndisturbedIsItself, Undisturbed, Working, Alive, AloneWhileWorking,
       EndIsShown, NoneIsLeft
<1>5. ASSUME NEW m \in Mailboxes, CancelSet(m) \/ EditBegin(m) PROVE UndisturbedIsItself'
  BY <1>4, <1>5 DEF CancelSet, EditBegin, manager, hmeSettings
<1>6. CASE ShutdownCaptures \/ EditEnd \/ UNCHANGED captureVars
  BY <1>4, <1>6 DEF ShutdownCaptures, EditEnd, captureVars, manager, hmeSettings
<1> QED
  BY <1>1, <1>2, <1>3, <1>5, <1>6 DEF CaptureNext

LEMMA CaptureInvInit == CaptureInit => CaptureInv
<1> SUFFICES ASSUME CaptureInit PROVE CaptureInv
  OBVIOUS
<1> USE HmeCaptureAssumption, CaptureIds DEF CaptureInit, Fresh, Nobody
<1>1. ManagerTyped
  BY DEF ManagerTyped, Places
<1>2. SettingsTyped
  BY DEF SettingsTyped, Settings
<1>3. CaptureRows
  BY DEF CaptureRows
<1>4. UndisturbedIsItself
  BY DEF UndisturbedIsItself, Undisturbed, Working, Alive
<1>5. ReadsAreCurrent /\ SettingsAreKept
  BY DEF ReadsAreCurrent, SettingsAreKept
<1> QED
  BY <1>1, <1>2, <1>3, <1>4, <1>5 DEF CaptureInv, CaptureTyped

LEMMA CaptureInvStep == CaptureInv /\ [CaptureNext]_captureVars => CaptureInv'
BY ManagerTypes, SettingsTypes, CaptureRowsStep, ItselfStep, ReadsStep, SettingsStep
   DEF CaptureInv, CaptureTyped

LEMMA CaptureInvariant == CaptureSpec => []CaptureInv
BY CaptureInvInit, CaptureInvStep, PTL DEF CaptureSpec

LEMMA CaptureInvTyped == CaptureInv => CaptureTypeOK
BY CaptureIds
   DEF CaptureInv, CaptureTyped, ManagerTyped, SettingsTyped, CaptureRows, CaptureTypeOK

LEMMA CaptureInvMeans == CaptureInv => CapturesAgree
<1> SUFFICES ASSUME CaptureInv PROVE CapturesAgree
  OBVIOUS
<1> USE CaptureStates, CaptureIds DEF CaptureInv, CaptureTyped, ManagerTyped, SettingsTyped, CaptureRows
<1>1. ASSUME NEW m \in Mailboxes, lastSaved[m] \notin {0} \cup disturbed
      PROVE  shown[lastSaved[m]] \notin {"cancelled", "failed"}
  <2>1. lastSaved[m] \in Captures \ disturbed /\ of[lastSaved[m]] = m
    BY <1>1
  <2>2. Undisturbed(lastSaved[m])
    BY <2>1 DEF UndisturbedIsItself
  <2>3. CASE at[lastSaved[m]] = "saved"
    BY <2>2, <2>3 DEF Undisturbed, Working, Alive, AloneWhileWorking, ActiveStates
  <2>4. CASE at[lastSaved[m]] \in {"last", "done"}
    BY <2>1, <2>2, <2>4 DEF Undisturbed, EndIsShown
  <2> QED
    BY <1>1, <2>3, <2>4
<1>2. ASSUME NEW m \in Mailboxes, captureOf[m] \notin {0} \cup disturbed,
             at[captureOf[m]] \in {"last", "done"} \/ shown[captureOf[m]] = "captured"
      PROVE  EndIsShown(captureOf[m])
  <2>1. captureOf[m] \in Captures \ disturbed /\ of[captureOf[m]] = m
    BY <1>2
  <2>2. Undisturbed(captureOf[m])
    BY <2>1 DEF UndisturbedIsItself
  <2>3. at[captureOf[m]] # "none"
    BY <2>1, HmeCaptureAssumption DEF Nobody
  <2> QED
    BY <1>2, <2>2, <2>3 DEF Undisturbed, Working, Alive, AloneWhileWorking, ActiveStates
<1>3. ShownAgreesWithStored
  BY <1>1, <1>2 DEF ShownAgreesWithStored, EndIsShown
<1>4. EndedIsShownEnded
  BY <1>2 DEF EndedIsShownEnded, EndIsShown
<1> QED
  BY <1>3, <1>4 DEF CapturesAgree

\* What is shown of a capture, what it stored and what it left of the other
\* settings agree, whichever cancellation, deadline, failure or edit came
\* between (ICloudHmeCaptureManager._run and _save_captured_hme_session).
THEOREM CapturesAreKept == CaptureSpec => []CapturesAgree
BY CaptureInvMeans, CaptureInvariant, PTL

\* How far the thread of a capture is from its end.
CaptureLeft ==
  [none |-> 9, open |-> 8, window |-> 7, signed_in |-> 6, got |-> 5, list |-> 4, store |-> 3,
   saved |-> 2, last |-> 1, done |-> 0]

\* A capture is at each place once: every step of its thread goes on towards
\* the end, and no step of anybody takes it back or begins it again.
CapturesAdvance ==
  [][\A j \in Captures :
       /\ CaptureThread(j) => CaptureLeft[at'[j]] < CaptureLeft[at[j]]
       /\ at'[j] # at[j] => CaptureLeft[at'[j]] < CaptureLeft[at[j]]]_captureVars

LEMMA ThreadAdvances ==
  ASSUME at \in [Captures -> Places], NEW j \in Captures, CaptureThread(j)
  PROVE  CaptureLeft[at'[j]] < CaptureLeft[at[j]] /\ \A i \in Captures \ {j} : at'[i] = at[i]
<1> USE DEF Moves, CaptureLeft
<1>1. CASE OpenWindow(j)
  BY <1>1 DEF OpenWindow
<1>2. CASE Authenticated(j)
  BY <1>2 DEF Authenticated
<1>3. CASE SessionSeen(j)
  BY <1>3 DEF SessionSeen, WindowOpen
<1>4. CASE WindowCloses(j)
  BY <1>4 DEF WindowCloses, WindowOpen
<1>5. CASE SaveBegin(j)
  BY <1>5 DEF SaveBegin
<1>6. CASE SaveList(j)
  BY <1>6 DEF SaveList
<1>7. CASE SaveStore(j)
  BY <1>7 DEF SaveStore
<1>8. CASE PublishCaptured(j)
  BY <1>8 DEF PublishCaptured
<1>9. CASE Finally(j)
  BY <1>9 DEF Finally
<1> QED
  BY <1>1, <1>2, <1>3, <1>4, <1>5, <1>6, <1>7, <1>8, <1>9 DEF CaptureThread

\* A capture ends after at most eight steps of its thread, whoever cancels it
\* or edits the mailbox meanwhile.
THEOREM CapturesComeToAnEnd == CaptureSpec => CapturesAdvance
<1>1. CaptureInv /\ [CaptureNext]_captureVars =>
        [\A j \in Captures :
           /\ CaptureThread(j) => CaptureLeft[at'[j]] < CaptureLeft[at[j]]
           /\ at'[j] # at[j] => CaptureLeft[at'[j]] < CaptureLeft[at[j]]]_captureVars
  <2> SUFFICES ASSUME CaptureInv, CaptureNext, NEW j \in Captures
               PROVE  /\ CaptureThread(j) => CaptureLeft[at'[j]] < CaptureLeft[at[j]]
                      /\ at'[j] # at[j] => CaptureLeft[at'[j]] < CaptureLeft[at[j]]
    OBVIOUS
  <2>1. at \in [Captures -> Places]
    BY DEF CaptureInv, CaptureTyped, ManagerTyped
  <2>2. CaptureThread(j) => CaptureLeft[at'[j]] < CaptureLeft[at[j]]
    BY <2>1, ThreadAdvances
  <2>3. ASSUME NEW i \in Captures, CaptureThread(i), at'[j] # at[j]
        PROVE  CaptureLeft[at'[j]] < CaptureLeft[at[j]]
    BY <2>1, <2>3, ThreadAdvances
  <2>4. ASSUME NEW m \in Mailboxes, StartCapture(m), at'[j] # at[j]
        PROVE  CaptureLeft[at'[j]] < CaptureLeft[at[j]]
    <3>1. PICK i \in Captures : at[i] = "none" /\ at' = [at EXCEPT ![i] = "open"]
      BY <2>4 DEF StartCapture
    <3>2. at[j] = "none" /\ at'[j] = "open"
      BY <2>1, <2>4, <3>1
    <3> QED
      BY <3>2 DEF CaptureLeft
  <2>5. ASSUME NEW m \in Mailboxes, CancelSet(m) \/ CancelPublish(m) \/ EditBegin(m)
        PROVE  at' = at
    BY <2>5 DEF CancelSet, CancelPublish, EditBegin, manager
  <2>6. ShutdownCaptures \/ EditEnd => at' = at
    BY DEF ShutdownCaptures, EditEnd, manager
  <2> QED
    BY <2>2, <2>3, <2>4, <2>5, <2>6 DEF CaptureNext
<1> QED
  BY <1>1, CaptureInvariant, PTL DEF CaptureSpec, CapturesAdvance


(***************************************************************************)
(* The proxy chains of Team owners.                                        *)
(***************************************************************************)
ChainConfigs == [source : Nat \ {0}, port : RelayPorts] \cup {DirectConfig}

ThreadPlaces ==
  {"off", "prepare", "store", "lock", "stop", "start", "read", "wait", "fetch", "check"}

Cfgs == [source : Nat, port : RelayPorts \cup {NoPort}]

ThreadEntries ==
  [op : {"none", "chain", "direct", "ready"}, place : ThreadPlaces,
   owner : ChainOwners \cup {NoOwner}, cfg : Cfgs]

\* What a thread is about to store is a whole configuration.
StoresWhole(t) ==
  /\ ~At(t, "off") => pending[t].owner \in ChainOwners
  /\ At(t, "prepare") => pending[t].op = "chain" /\ IsChain(pending[t].cfg)
  /\ At(t, "store") =>
       \/ pending[t].op = "direct" /\ pending[t].cfg = DirectConfig
       \/ pending[t].op = "chain" /\ pending[t].cfg \in ChainConfigs \ {DirectConfig}

ChainTyped ==
  /\ chainConfig \in [ChainOwners -> ChainConfigs] /\ relay \in [ChainOwners -> ChainConfigs]
  /\ desired \in [ChainOwners -> ChainConfigs] /\ cache \in [ChainOwners -> Nat]
  /\ asks \in [ChainOwners -> [place : {"off", "read", "fetch"}, source : Nat]]
  /\ pending \in [ChainThreads -> ThreadEntries]
  /\ sources \in Nat /\ applyLock \in ChainThreads \cup {NoOwner}
  /\ \A t \in ChainThreads : StoresWhole(t)

\* One thread applies at a time; what it has read is what is stored, or a
\* thread that has stored since waits for its turn.
Applying ==
  /\ \A t \in ChainThreads : applyLock = t <=> pending[t].place \in {"stop", "start"}
  /\ applyLock # NoOwner => desired = chainConfig \/ \E t \in ChainThreads : At(t, "lock")
  /\ \A t \in ChainThreads : At(t, "start") =>
       \A o \in ChainOwners : relay[o] \in {DirectConfig, desired[o]}
  /\ applyLock = NoOwner /\ (\A t \in ChainThreads : ~At(t, "lock")) =>
       \A o \in ChainOwners \ unapplied : relay[o] = chainConfig[o]

\* A port that is about to be stored is nobody else's.
Choosing(t) == pending[t].op = "chain" /\ At(t, "store") /\ pending[t].owner \notin clashed

ChosenPortIsFree(t) ==
  LET o == pending[t].owner
      port == pending[t].cfg.port
  IN  /\ \A p \in ChainOwners \ clashed : p # o => chainConfig[p].port # port
      /\ \A u \in ChainThreads : Choosing(u) /\ pending[u].owner # o => pending[u].cfg.port # port

PortsAreKept ==
  /\ PortsAreDistinct
  /\ \A t \in ChainThreads : Choosing(t) => ChosenPortIsFree(t)

\* A source that is about to be stored was never configured.
Configures(t) == pending[t].op = "chain" /\ pending[t].place \in {"prepare", "store"}

SourceIsNew(t) ==
  /\ \A o \in ChainOwners :
       pending[t].cfg.source \notin {chainConfig[o].source, relay[o].source, desired[o].source}
  /\ \A u \in ChainThreads \ {t} : Configures(u) => pending[u].cfg.source # pending[t].cfg.source

SourcesAreNew ==
  /\ \A o \in ChainOwners :
       chainConfig[o].source <= sources /\ relay[o].source <= sources /\ desired[o].source <= sources
  /\ \A t \in ChainThreads : Configures(t) => pending[t].cfg.source <= sources /\ SourceIsNew(t)

\* Whoever asks for a second hop asks the configured source, and only an owner
\* with a relay has one cached.
HopIsCurrent(o) ==
  /\ \A t \in Asking(o) : pending[t].cfg.source = chainConfig[o].source
  /\ asks[o].place # "off" => asks[o].source = chainConfig[o].source
  /\ cache[o] # 0 => IsChain(relay[o])
  /\ IsChain(relay[o]) /\ relay[o] = chainConfig[o] => cache[o] \in {0, chainConfig[o].source}

HopsAreCurrent == \A o \in ChainOwners \ outdated : HopIsCurrent(o)

ChainInv == ChainTyped /\ Applying /\ PortsAreKept /\ SourcesAreNew /\ HopsAreCurrent

LEMMA ConfigFacts ==
  /\ \A c \in ChainConfigs : c.source \in Nat /\ c.port \in RelayPorts \cup {NoPort}
                             /\ (IsChain(c) <=> c.port # NoPort) /\ (~IsChain(c) => c = DirectConfig)
  /\ DirectConfig \in ChainConfigs /\ ~IsChain(DirectConfig)
  /\ \A n \in Nat \ {0}, port \in RelayPorts : [source |-> n, port |-> port] \in ChainConfigs
  /\ \A c \in ChainConfigs : c # DirectConfig => IsChain(c)
  /\ ChainConfigs \subseteq Cfgs /\ DirectConfig \in Cfgs
BY ProxyChainsAssumption DEF ChainConfigs, Cfgs, DirectConfig, IsChain, NoPort

\* A thread goes on with the entry e.
GoesOn(t, e) ==
  /\ pending' \in [ChainThreads -> ThreadEntries] /\ pending'[t] = e
  /\ \A u \in ChainThreads \ {t} : pending'[u] = pending[u]

At3(t, place, cfg) ==
  [op |-> pending[t].op, place |-> place, owner |-> pending[t].owner, cfg |-> cfg]

LEMMA SameEntry ==
  ASSUME NEW e \in ThreadEntries, NEW f \in ThreadEntries,
         e.op = f.op, e.place = f.place, e.owner = f.owner, e.cfg = f.cfg
  PROVE  e = f
BY DEF ThreadEntries

LEMMA GoingOn ==
  ASSUME ChainTyped, NEW t \in ChainThreads
  PROVE  /\ \A place \in ThreadPlaces : Step3(t, place) => GoesOn(t, At3(t, place, pending[t].cfg))
         /\ \A place \in ThreadPlaces, cfg \in Cfgs :
              pending' = [pending EXCEPT ![t] = [@ EXCEPT !.place = place, !.cfg = cfg]]
                => GoesOn(t, At3(t, place, cfg))
         /\ \A e \in ThreadEntries : pending' = [pending EXCEPT ![t] = e] => GoesOn(t, e)
         /\ Stops(t) => GoesOn(t, Rest)
         /\ pending[t] = At3(t, pending[t].place, pending[t].cfg) /\ pending[t] \in ThreadEntries
<1> USE DEF ChainTyped
<1>1. pending[t] \in ThreadEntries /\ pending[t] = At3(t, pending[t].place, pending[t].cfg)
  BY DEF ThreadEntries, At3
<1>2. ASSUME NEW place \in ThreadPlaces, Step3(t, place) PROVE GoesOn(t, At3(t, place, pending[t].cfg))
  <2>1. [pending[t] EXCEPT !.place = place] = At3(t, place, pending[t].cfg)
    BY <1>1 DEF At3, ThreadEntries
  <2>2. At3(t, place, pending[t].cfg) \in ThreadEntries
    BY <1>1 DEF At3, ThreadEntries
  <2>3. pending' = [pending EXCEPT ![t] = At3(t, place, pending[t].cfg)]
    BY <1>2, <2>1 DEF Step3
  <2> QED
    BY <2>2, <2>3 DEF GoesOn
<1>3. ASSUME NEW place \in ThreadPlaces, NEW cfg \in Cfgs,
             pending' = [pending EXCEPT ![t] = [@ EXCEPT !.place = place, !.cfg = cfg]]
      PROVE  GoesOn(t, At3(t, place, cfg))
  <2> DEFINE e == [pending[t] EXCEPT !.place = place, !.cfg = cfg]
  <2>1. e \in ThreadEntries /\ At3(t, place, cfg) \in ThreadEntries
    BY <1>1 DEF ThreadEntries, At3, Cfgs
  <2>2. e.op = pending[t].op /\ e.place = place /\ e.owner = pending[t].owner /\ e.cfg = cfg
    BY <1>1 DEF ThreadEntries
  <2>3. e = At3(t, place, cfg)
    <3> HIDE DEF e
    <3> QED
      BY <2>1, <2>2, SameEntry DEF At3
  <2>4. pending' = [pending EXCEPT ![t] = At3(t, place, cfg)]
    BY <1>3, <2>3
  <2> QED
    BY <2>1, <2>4 DEF GoesOn
<1>5. \A e \in ThreadEntries : pending' = [pending EXCEPT ![t] = e] => GoesOn(t, e)
  BY DEF GoesOn
<1>6. Rest \in ThreadEntries
  BY ConfigFacts DEF Rest, ThreadEntries, ThreadPlaces
<1> QED
  BY <1>1, <1>2, <1>3, <1>5, <1>6 DEF Stops

\* The entries a thread's steps leave.
LEMMA ThreadEntrySteps ==
  ASSUME ChainTyped, NEW t \in ChainThreads
  PROVE  /\ \A o \in ChainOwners : BeginChain(t, o) =>
              GoesOn(t, [op |-> "chain", place |-> "prepare", owner |-> o,
                         cfg |-> [source |-> sources + 1, port |-> NoPort]])
         /\ \A o \in ChainOwners : BeginDirect(t, o) =>
              GoesOn(t, [op |-> "direct", place |-> "store", owner |-> o, cfg |-> DirectConfig])
         /\ \A o \in ChainOwners : BeginReady(t, o) =>
              GoesOn(t, [op |-> "ready", place |-> "lock", owner |-> o, cfg |-> DirectConfig])
         /\ StoreConfig(t) => GoesOn(t, At3(t, "lock", DirectConfig))
         /\ ApplyLock(t) => GoesOn(t, At3(t, "stop", pending[t].cfg))
         /\ ApplyStop(t) => GoesOn(t, At3(t, "start", pending[t].cfg))
         /\ ApplyStart(t) => GoesOn(t, Rest) \/ GoesOn(t, At3(t, "read", pending[t].cfg))
         /\ RefreshRead(t) => \/ GoesOn(t, Rest)
                              \/ GoesOn(t, At3(t, "wait", chainConfig[pending[t].owner]))
         /\ RefreshWait(t) => GoesOn(t, At3(t, "fetch", pending[t].cfg))
         /\ RefreshFetch(t) => GoesOn(t, Rest) \/ GoesOn(t, At3(t, "check", pending[t].cfg))
         /\ ReadyCheck(t) => GoesOn(t, Rest)
<1>0. sources + 1 \in Nat
  BY DEF ChainTyped
<1> USE GoingOn, ConfigFacts DEF ThreadPlaces
<1>1. ASSUME NEW o \in ChainOwners, BeginChain(t, o)
      PROVE  GoesOn(t, [op |-> "chain", place |-> "prepare", owner |-> o,
                        cfg |-> [source |-> sources + 1, port |-> NoPort]])
  <2> DEFINE e == [op |-> "chain", place |-> "prepare", owner |-> o,
                   cfg |-> [source |-> sources + 1, port |-> NoPort]]
  <2>1. e \in ThreadEntries
    <3>1. [source |-> sources + 1, port |-> NoPort] \in Cfgs
      BY <1>0 DEF Cfgs
    <3> QED
      BY <3>1 DEF ThreadEntries
  <2>2. pending' = [pending EXCEPT ![t] = e]
    BY <1>1 DEF BeginChain, Begins
  <2> QED
    BY <2>1, <2>2
<1>2. ASSUME NEW o \in ChainOwners, BeginDirect(t, o)
      PROVE  GoesOn(t, [op |-> "direct", place |-> "store", owner |-> o, cfg |-> DirectConfig])
  BY <1>2 DEF BeginDirect, ThreadEntries
<1>3. ASSUME NEW o \in ChainOwners, BeginReady(t, o)
      PROVE  GoesOn(t, [op |-> "ready", place |-> "lock", owner |-> o, cfg |-> DirectConfig])
  BY <1>3 DEF BeginReady, ThreadEntries
<1>4. StoreConfig(t) => GoesOn(t, At3(t, "lock", DirectConfig))
  BY DEF StoreConfig
<1>5. ApplyLock(t) => GoesOn(t, At3(t, "stop", pending[t].cfg))
  BY DEF ApplyLock
<1>6. ApplyStop(t) => GoesOn(t, At3(t, "start", pending[t].cfg))
  BY DEF ApplyStop
<1>7. ApplyStart(t) => GoesOn(t, Rest) \/ GoesOn(t, At3(t, "read", pending[t].cfg))
  BY DEF ApplyStart
<1>8. RefreshRead(t) => GoesOn(t, Rest) \/ GoesOn(t, At3(t, "wait", chainConfig[pending[t].owner]))
  <2>1. At(t, "read") => chainConfig[pending[t].owner] \in ChainConfigs
    BY DEF ChainTyped, StoresWhole, At
  <2> QED
    BY <2>1 DEF RefreshRead
<1>9. RefreshWait(t) => GoesOn(t, At3(t, "fetch", pending[t].cfg))
  BY DEF RefreshWait
<1>10. RefreshFetch(t) => GoesOn(t, Rest) \/ GoesOn(t, At3(t, "check", pending[t].cfg))
  BY DEF RefreshFetch
<1>11. ReadyCheck(t) => GoesOn(t, Rest)
  BY DEF ReadyCheck
<1> QED
  BY <1>1, <1>2, <1>3, <1>4, <1>5, <1>6, <1>7, <1>8, <1>9, <1>10, <1>11

LEMMA PrepareStep ==
  ASSUME ChainTyped, NEW t \in ChainThreads, Prepare(t)
  PROVE  \/ GoesOn(t, Rest) /\ UNCHANGED clashed
         \/ \E port \in RelayPorts :
              /\ GoesOn(t, At3(t, "store", [source |-> pending[t].cfg.source, port |-> port]))
              /\ \/ /\ IsChain(chainConfig[pending[t].owner]) /\ port = chainConfig[pending[t].owner].port
                    /\ UNCHANGED clashed
                 \/ /\ port \notin TakenPorts(pending[t].owner)
                    /\ LET others == {u \in ChainThreads \ {t} : pending[u].op = "chain" /\ At(u, "store")}
                       IN  clashed' = IF others = {} THEN clashed
                                      ELSE clashed \cup {pending[t].owner} \cup {pending[u].owner : u \in others}
<1> DEFINE o == pending[t].owner
<1>1. o \in ChainOwners /\ chainConfig[o] \in ChainConfigs
  BY DEF Prepare, ChainTyped, StoresWhole, At
<1>2. IsChain(chainConfig[o]) => chainConfig[o].port \in RelayPorts
  BY <1>1, ConfigFacts
<1>3. ASSUME NEW port \in RelayPorts, pending' = [pending EXCEPT ![t] = Chosen(@, port)]
      PROVE  GoesOn(t, At3(t, "store", [source |-> pending[t].cfg.source, port |-> port]))
  <2>1. [source |-> pending[t].cfg.source, port |-> port] \in Cfgs
    BY GoingOn DEF ThreadEntries, Cfgs
  <2>2. pending' = [pending EXCEPT ![t] =
          [@ EXCEPT !.place = "store", !.cfg = [source |-> pending[t].cfg.source, port |-> port]]]
    BY <1>3 DEF Chosen
  <2> QED
    BY <2>1, <2>2, GoingOn DEF ThreadPlaces
<1> QED
  BY <1>1, <1>2, <1>3, GoingOn DEF Prepare

\* From which place to which one a thread's step goes.
LEMMA PlaceSteps ==
  ASSUME ChainTyped, NEW t \in ChainThreads
  PROVE  /\ ChainStep(t) => \A u \in ChainThreads \ {t} : pending'[u] = pending[u]
         /\ Prepare(t) => At(t, "prepare") /\ pending'[t].place \in {"off", "store"}
         /\ StoreConfig(t) => At(t, "store") /\ pending'[t].place = "lock"
         /\ ApplyLock(t) => At(t, "lock") /\ pending'[t].place = "stop"
         /\ ApplyStop(t) => At(t, "stop") /\ pending'[t].place = "start"
         /\ ApplyStart(t) => At(t, "start") /\ pending'[t].place \in {"off", "read"}
         /\ RefreshRead(t) => At(t, "read") /\ pending'[t].place \in {"off", "wait"}
         /\ RefreshWait(t) => At(t, "wait") /\ pending'[t].place = "fetch"
         /\ RefreshFetch(t) => At(t, "fetch") /\ pending'[t].place \in {"off", "check"}
         /\ ReadyCheck(t) => At(t, "check") /\ pending'[t].place = "off"
<1>1. GoesOn(t, Rest) => pending'[t].place = "off" /\ \A u \in ChainThreads \ {t} : pending'[u] = pending[u]
  BY DEF GoesOn, Rest
<1>2. ASSUME NEW place, NEW cfg, GoesOn(t, At3(t, place, cfg))
      PROVE  pending'[t].place = place /\ \A u \in ChainThreads \ {t} : pending'[u] = pending[u]
  BY <1>2 DEF GoesOn, At3
<1>3. ASSUME Prepare(t)
      PROVE  At(t, "prepare") /\ pending'[t].place \in {"off", "store"} /\ \A u \in ChainThreads \ {t} : pending'[u] = pending[u]
  <2>1. GoesOn(t, Rest) \/ \E port \in RelayPorts : GoesOn(t, At3(t, "store", [source |-> pending[t].cfg.source, port |-> port]))
    BY <1>3, PrepareStep
  <2> QED
    BY <1>1, <1>2, <1>3, <2>1 DEF Prepare
<1>4. ASSUME StoreConfig(t)
      PROVE  At(t, "store") /\ pending'[t].place = "lock" /\ \A u \in ChainThreads \ {t} : pending'[u] = pending[u]
  <2>1. GoesOn(t, At3(t, "lock", DirectConfig))
    BY <1>4, ThreadEntrySteps
  <2> QED
    BY <1>1, <1>2, <1>4, <2>1 DEF StoreConfig
<1>5. ASSUME ApplyLock(t)
      PROVE  At(t, "lock") /\ pending'[t].place = "stop" /\ \A u \in ChainThreads \ {t} : pending'[u] = pending[u]
  <2>1. GoesOn(t, At3(t, "stop", pending[t].cfg))
    BY <1>5, ThreadEntrySteps
  <2> QED
    BY <1>1, <1>2, <1>5, <2>1 DEF ApplyLock
<1>6. ASSUME ApplyStop(t)
      PROVE  At(t, "stop") /\ pending'[t].place = "start" /\ \A u \in ChainThreads \ {t} : pending'[u] = pending[u]
  <2>1. GoesOn(t, At3(t, "start", pending[t].cfg))
    BY <1>6, ThreadEntrySteps
  <2> QED
    BY <1>1, <1>2, <1>6, <2>1 DEF ApplyStop
<1>7. ASSUME ApplyStart(t)
      PROVE  At(t, "start") /\ pending'[t].place \in {"off", "read"} /\ \A u \in ChainThreads \ {t} : pending'[u] = pending[u]
  <2>1. GoesOn(t, Rest) \/ GoesOn(t, At3(t, "read", pending[t].cfg))
    BY <1>7, ThreadEntrySteps
  <2> QED
    BY <1>1, <1>2, <1>7, <2>1 DEF ApplyStart
<1>8. ASSUME RefreshRead(t)
      PROVE  At(t, "read") /\ pending'[t].place \in {"off", "wait"} /\ \A u \in ChainThreads \ {t} : pending'[u] = pending[u]
  <2>1. GoesOn(t, Rest) \/ GoesOn(t, At3(t, "wait", chainConfig[pending[t].owner]))
    BY <1>8, ThreadEntrySteps
  <2> QED
    BY <1>1, <1>2, <1>8, <2>1 DEF RefreshRead
<1>9. ASSUME RefreshWait(t)
      PROVE  At(t, "wait") /\ pending'[t].place = "fetch" /\ \A u \in ChainThreads \ {t} : pending'[u] = pending[u]
  <2>1. GoesOn(t, At3(t, "fetch", pending[t].cfg))
    BY <1>9, ThreadEntrySteps
  <2> QED
    BY <1>1, <1>2, <1>9, <2>1 DEF RefreshWait
<1>10. ASSUME RefreshFetch(t)
      PROVE  At(t, "fetch") /\ pending'[t].place \in {"off", "check"} /\ \A u \in ChainThreads \ {t} : pending'[u] = pending[u]
  <2>1. GoesOn(t, Rest) \/ GoesOn(t, At3(t, "check", pending[t].cfg))
    BY <1>10, ThreadEntrySteps
  <2> QED
    BY <1>1, <1>2, <1>10, <2>1 DEF RefreshFetch
<1>11. ASSUME ReadyCheck(t)
      PROVE  At(t, "check") /\ pending'[t].place = "off" /\ \A u \in ChainThreads \ {t} : pending'[u] = pending[u]
  <2>1. GoesOn(t, Rest)
    BY <1>11, ThreadEntrySteps
  <2> QED
    BY <1>1, <1>2, <1>11, <2>1 DEF ReadyCheck
<1> QED
  BY <1>3, <1>4, <1>5, <1>6, <1>7, <1>8, <1>9, <1>10, <1>11 DEF ChainStep

\* The types of what threads share, and of their own entries.
SharedTyped ==
  /\ chainConfig \in [ChainOwners -> ChainConfigs] /\ relay \in [ChainOwners -> ChainConfigs]
  /\ desired \in [ChainOwners -> ChainConfigs] /\ cache \in [ChainOwners -> Nat]
  /\ asks \in [ChainOwners -> [place : {"off", "read", "fetch"}, source : Nat]]
  /\ sources \in Nat /\ applyLock \in ChainThreads \cup {NoOwner}

ThreadsTyped ==
  pending \in [ChainThreads -> ThreadEntries] /\ \A t \in ChainThreads : StoresWhole(t)

LEMMA SharedTypes ==
  ASSUME ChainTyped, [ChainNext]_chainVars
  PROVE  SharedTyped'
<1> USE ConfigFacts DEF SharedTyped, ChainTyped, stores, histories, NoAsk
<1>1. ASSUME NEW t \in ChainThreads, NEW o \in ChainOwners, BeginChain(t, o) PROVE SharedTyped'
  BY <1>1 DEF BeginChain, Begins
<1>2. ASSUME NEW t \in ChainThreads, NEW o \in ChainOwners, BeginDirect(t, o) PROVE SharedTyped'
  BY <1>2 DEF BeginDirect, Begins
<1>3. ASSUME NEW t \in ChainThreads, NEW o \in ChainOwners, BeginReady(t, o) PROVE SharedTyped'
  BY <1>3 DEF BeginReady, Begins
<1>4. ASSUME NEW t \in ChainThreads, Prepare(t) PROVE SharedTyped'
  BY <1>4 DEF Prepare
<1>5. ASSUME NEW t \in ChainThreads, StoreConfig(t) PROVE SharedTyped'
  BY <1>5 DEF StoreConfig, StoresWhole, At
<1>6. ASSUME NEW t \in ChainThreads, ApplyLock(t) PROVE SharedTyped'
  BY <1>6 DEF ApplyLock
<1>7. ASSUME NEW t \in ChainThreads, ApplyStop(t) PROVE SharedTyped'
  BY <1>7 DEF ApplyStop
<1>8. ASSUME NEW t \in ChainThreads, ApplyStart(t) PROVE SharedTyped'
  BY <1>8 DEF ApplyStart, ChainFault, Starting
<1>9. ASSUME NEW t \in ChainThreads, RefreshRead(t) PROVE SharedTyped'
  BY <1>9 DEF RefreshRead
<1>10. ASSUME NEW t \in ChainThreads, RefreshWait(t) PROVE SharedTyped'
  BY <1>10 DEF RefreshWait
<1>11. ASSUME NEW t \in ChainThreads, RefreshFetch(t) PROVE SharedTyped'
  BY <1>11 DEF RefreshFetch, ChainFault, CachedWithoutRelay, StoresWhole, At, ThreadEntries, Cfgs
<1>12. ASSUME NEW t \in ChainThreads, ReadyCheck(t) PROVE SharedTyped'
  BY <1>12 DEF ReadyCheck
<1>13. ASSUME NEW o \in ChainOwners, AskCache(o) PROVE SharedTyped'
  BY <1>13 DEF AskCache
<1>14. ASSUME NEW o \in ChainOwners, AskWait(o) PROVE SharedTyped'
  <2>1. asks' \in [ChainOwners -> [place : {"off", "read", "fetch"}, source : Nat]]
    <3>1. [asks[o] EXCEPT !.place = "fetch"] \in [place : {"off", "read", "fetch"}, source : Nat]
      OBVIOUS
    <3>2. CASE asks' = [asks EXCEPT ![o] = NoAsk]
      BY <3>2
    <3>3. CASE asks' = [asks EXCEPT ![o].place = "fetch"]
      BY <3>1, <3>3
    <3> QED
      BY <1>14, <3>2, <3>3 DEF AskWait
  <2> QED
    BY <1>14, <2>1 DEF AskWait
<1>15. ASSUME NEW o \in ChainOwners, AskFetch(o) PROVE SharedTyped'
  BY <1>15 DEF AskFetch, ChainFault, CachedWithoutRelay
<1>16. ASSUME NEW o \in ChainOwners, CacheExpires(o) PROVE SharedTyped'
  BY <1>16 DEF CacheExpires
<1>17. CASE ConsoleRestart
  BY <1>17 DEF ConsoleRestart
<1>18. CASE UNCHANGED chainVars
  BY <1>18 DEF chainVars
<1> QED
  BY ProxyChainsAssumption, <1>1, <1>2, <1>3, <1>4, <1>5, <1>6, <1>7, <1>8, <1>9, <1>10, <1>11,
     <1>12, <1>13, <1>14, <1>15, <1>16, <1>17, <1>18
     DEF ChainNext, ChainStep

LEMMA ThreadTypes ==
  ASSUME ChainTyped, [ChainNext]_chainVars
  PROVE  ThreadsTyped'
<1>0. ASSUME NEW t \in ChainThreads, NEW e, GoesOn(t, e),
             /\ e.place # "off" => e.owner \in ChainOwners
             /\ e.place = "prepare" => e.op = "chain" /\ IsChain(e.cfg)
             /\ e.place = "store" => \/ e.op = "direct" /\ e.cfg = DirectConfig
                                     \/ e.op = "chain" /\ e.cfg \in ChainConfigs \ {DirectConfig}
      PROVE  ThreadsTyped'
  BY <1>0 DEF GoesOn, ThreadsTyped, StoresWhole, At, ChainTyped
<1>1. ASSUME NEW t \in ChainThreads, NEW o \in ChainOwners, BeginChain(t, o) PROVE ThreadsTyped'
  <2>1. sources + 1 # 0
    BY DEF ChainTyped
  <2>2. GoesOn(t, [op |-> "chain", place |-> "prepare", owner |-> o,
                   cfg |-> [source |-> sources + 1, port |-> NoPort]])
    BY <1>1, ThreadEntrySteps
  <2> QED
    BY <1>0, <2>1, <2>2 DEF IsChain
<1>2. ASSUME NEW t \in ChainThreads, NEW o \in ChainOwners, BeginDirect(t, o) PROVE ThreadsTyped'
  <2> DEFINE e == [op |-> "direct", place |-> "store", owner |-> o, cfg |-> DirectConfig]
  <2>1. GoesOn(t, e)
    BY <1>2, ThreadEntrySteps
  <2>2. e.op = "direct" /\ e.place = "store" /\ e.owner = o /\ e.cfg = DirectConfig
    OBVIOUS
  <2> HIDE DEF e
  <2> QED
    BY <1>0, <2>1, <2>2
<1>3. ASSUME NEW t \in ChainThreads, NEW o \in ChainOwners, BeginReady(t, o) PROVE ThreadsTyped'
  <2>1. GoesOn(t, [op |-> "ready", place |-> "lock", owner |-> o, cfg |-> DirectConfig])
    BY <1>3, ThreadEntrySteps
  <2> QED
    BY <1>0, <2>1
<1>4. ASSUME NEW t \in ChainThreads, Prepare(t) PROVE ThreadsTyped'
  <2>1. /\ pending[t].owner \in ChainOwners /\ pending[t].op = "chain"
        /\ pending[t].cfg.source \in Nat \ {0}
    BY <1>4, GoingOn DEF Prepare, ChainTyped, StoresWhole, At, IsChain, ThreadEntries, Cfgs
  <2>2. CASE GoesOn(t, Rest)
    BY <1>0, <2>2 DEF Rest
  <2>3. ASSUME NEW port \in RelayPorts,
               GoesOn(t, At3(t, "store", [source |-> pending[t].cfg.source, port |-> port]))
        PROVE  ThreadsTyped'
    <3>1. [source |-> pending[t].cfg.source, port |-> port] \in ChainConfigs \ {DirectConfig}
      BY <2>1, ConfigFacts DEF DirectConfig
    <3> QED
      BY <1>0, <2>1, <2>3, <3>1 DEF At3
  <2> QED
    BY <1>4, <2>2, <2>3, PrepareStep
<1>5. ASSUME NEW t \in ChainThreads, StoreConfig(t) PROVE ThreadsTyped'
  BY <1>0, <1>5, ThreadEntrySteps DEF StoreConfig, At3, Rest, ChainTyped, StoresWhole, At
<1>6. ASSUME NEW t \in ChainThreads, ApplyLock(t) PROVE ThreadsTyped'
  BY <1>0, <1>6, ThreadEntrySteps DEF ApplyLock, At3, Rest, ChainTyped, StoresWhole, At
<1>7. ASSUME NEW t \in ChainThreads, ApplyStop(t) PROVE ThreadsTyped'
  BY <1>0, <1>7, ThreadEntrySteps, ZenonT(40) DEF ApplyStop, At3, Rest, ChainTyped, StoresWhole, At
<1>8. ASSUME NEW t \in ChainThreads, ApplyStart(t) PROVE ThreadsTyped'
  BY <1>0, <1>8, ThreadEntrySteps, ZenonT(40) DEF ApplyStart, At3, Rest, ChainTyped, StoresWhole, At
<1>9. ASSUME NEW t \in ChainThreads, RefreshRead(t) PROVE ThreadsTyped'
  <2>1. pending[t].owner \in ChainOwners
    BY <1>9 DEF RefreshRead, ChainTyped, StoresWhole, At
  <2>2. CASE GoesOn(t, Rest)
    BY <1>0, <2>2 DEF Rest
  <2>3. CASE GoesOn(t, At3(t, "wait", chainConfig[pending[t].owner]))
    BY <1>0, <2>1, <2>3 DEF At3
  <2> QED
    BY <1>9, <2>2, <2>3, ThreadEntrySteps
<1>10. ASSUME NEW t \in ChainThreads, RefreshWait(t) PROVE ThreadsTyped'
  <2>1. pending[t].owner \in ChainOwners
    BY <1>10 DEF RefreshWait, ChainTyped, StoresWhole, At
  <2>2. GoesOn(t, At3(t, "fetch", pending[t].cfg))
    BY <1>10, ThreadEntrySteps
  <2> QED
    BY <1>0, <2>1, <2>2 DEF At3
<1>11. ASSUME NEW t \in ChainThreads, RefreshFetch(t) PROVE ThreadsTyped'
  <2>1. pending[t].owner \in ChainOwners
    BY <1>11 DEF RefreshFetch, ChainTyped, StoresWhole, At
  <2>2. CASE GoesOn(t, Rest)
    BY <1>0, <2>2 DEF Rest
  <2>3. CASE GoesOn(t, At3(t, "check", pending[t].cfg))
    BY <1>0, <2>1, <2>3 DEF At3
  <2> QED
    BY <1>11, <2>2, <2>3, ThreadEntrySteps
<1>12. ASSUME NEW t \in ChainThreads, ReadyCheck(t) PROVE ThreadsTyped'
  BY <1>0, <1>12, ThreadEntrySteps DEF ReadyCheck, At3, Rest, ChainTyped, StoresWhole, At
<1>13. ASSUME NEW o \in ChainOwners, AskCache(o) PROVE ThreadsTyped'
  BY <1>13 DEF AskCache, ThreadsTyped, ChainTyped, StoresWhole, At
<1>14. ASSUME NEW o \in ChainOwners, AskWait(o) PROVE ThreadsTyped'
  BY <1>14 DEF AskWait, ThreadsTyped, ChainTyped, StoresWhole, At
<1>15. ASSUME NEW o \in ChainOwners, AskFetch(o) PROVE ThreadsTyped'
  BY <1>15 DEF AskFetch, ThreadsTyped, ChainTyped, StoresWhole, At
<1>16. ASSUME NEW o \in ChainOwners, CacheExpires(o) PROVE ThreadsTyped'
  BY <1>16 DEF CacheExpires, ThreadsTyped, ChainTyped, StoresWhole, At
<1>17. CASE ConsoleRestart
  BY <1>17 DEF ConsoleRestart, ThreadsTyped, ChainTyped, StoresWhole, At, Rest, ThreadEntries,
     ThreadPlaces, Cfgs, DirectConfig
<1>18. CASE UNCHANGED chainVars
  BY <1>18 DEF chainVars, ThreadsTyped, ChainTyped, StoresWhole, At
<1> QED
  BY ProxyChainsAssumption, <1>1, <1>2, <1>3, <1>4, <1>5, <1>6, <1>7, <1>8, <1>9, <1>10, <1>11,
     <1>12, <1>13, <1>14, <1>15, <1>16, <1>17, <1>18
     DEF ChainNext, ChainStep

LEMMA ChainTypes ==
  ASSUME ChainTyped, [ChainNext]_chainVars
  PROVE  ChainTyped'
BY SharedTypes, ThreadTypes DEF SharedTyped, ThreadsTyped, ChainTyped

\* Nobody begins or ends to wait for the lock or to apply.
SameTurns ==
  /\ \A u \in ChainThreads, place \in {"lock", "stop", "start"} :
       pending'[u].place = place <=> pending[u].place = place
  /\ UNCHANGED <<chainConfig, relay, desired, applyLock, unapplied>>

LEMMA TurnsKeptApplying ==
  ASSUME Applying, SameTurns
  PROVE  Applying'
BY DEF Applying, SameTurns, At

LEMMA ApplyingStep ==
  ASSUME ChainTyped, Applying, [ChainNext]_chainVars
  PROVE  Applying'
<1>1. ASSUME NEW t \in ChainThreads, NEW o \in ChainOwners, BeginChain(t, o) PROVE Applying'
  <2>1. GoesOn(t, [op |-> "chain", place |-> "prepare", owner |-> o, cfg |-> [source |-> sources + 1, port |-> NoPort]])
    BY <1>1, ThreadEntrySteps
  <2>2. SameTurns
    BY <1>1, <2>1 DEF BeginChain, Begins, At, GoesOn, SameTurns, stores, histories
  <2> QED
    BY <2>2, TurnsKeptApplying
<1>2. ASSUME NEW t \in ChainThreads, NEW o \in ChainOwners, BeginDirect(t, o) PROVE Applying'
  <2>1. GoesOn(t, [op |-> "direct", place |-> "store", owner |-> o, cfg |-> DirectConfig])
    BY <1>2, ThreadEntrySteps
  <2>2. SameTurns
    BY <1>2, <2>1 DEF BeginDirect, Begins, At, GoesOn, SameTurns, stores, histories
  <2> QED
    BY <2>2, TurnsKeptApplying
<1>3. ASSUME NEW t \in ChainThreads, NEW o \in ChainOwners, BeginReady(t, o) PROVE Applying'
  <2>1. GoesOn(t, [op |-> "ready", place |-> "lock", owner |-> o, cfg |-> DirectConfig])
    BY <1>3, ThreadEntrySteps
  <2> QED
    BY <1>3, <2>1 DEF BeginReady, Begins, At, GoesOn, Applying, histories
<1>4. ASSUME NEW t \in ChainThreads, Prepare(t) PROVE Applying'
  <2>1. pending[t].place = "prepare" /\ pending'[t].place \in {"off", "store"}
    BY <1>4, PlaceSteps DEF At
  <2>2. \A u \in ChainThreads \ {t} : pending'[u] = pending[u]
    BY <1>4, PlaceSteps DEF ChainStep
  <2>3. SameTurns
    BY <1>4, <2>1, <2>2 DEF Prepare, SameTurns, stores
  <2> QED
    BY <2>3, TurnsKeptApplying
<1>5. ASSUME NEW t \in ChainThreads, StoreConfig(t) PROVE Applying'
  <2>1. GoesOn(t, At3(t, "lock", DirectConfig)) /\ pending[t].place = "store"
    BY <1>5, ThreadEntrySteps DEF StoreConfig, At
  <2> QED
    BY <1>5, <2>1 DEF StoreConfig, At, GoesOn, At3, Applying
<1>6. ASSUME NEW t \in ChainThreads, ApplyLock(t) PROVE Applying'
  <2>1. GoesOn(t, At3(t, "stop", pending[t].cfg)) /\ t # NoOwner
    BY <1>6, ThreadEntrySteps, ProxyChainsAssumption DEF NoOwner
  <2>2. \A u \in ChainThreads \ {t} : pending'[u] = pending[u]
    BY <2>1 DEF GoesOn
  <2>3. pending'[t].place = "stop"
    BY <1>6, PlaceSteps
  <2>4. applyLock = NoOwner /\ applyLock' = t /\ desired' = chainConfig /\ chainConfig' = chainConfig
    BY <1>6 DEF ApplyLock, stores
  <2>5. \A u \in ChainThreads : pending[u].place \notin {"stop", "start"}
    BY <2>4, ProxyChainsAssumption DEF Applying, NoOwner
  <2> QED
    BY <2>1, <2>2, <2>3, <2>4, <2>5 DEF Applying, At
<1>7. ASSUME NEW t \in ChainThreads, ApplyStop(t) PROVE Applying'
  <2>1. GoesOn(t, At3(t, "start", pending[t].cfg)) /\ t # NoOwner /\ applyLock = t
    BY <1>7, ThreadEntrySteps, ProxyChainsAssumption DEF NoOwner, ApplyStop, At, Applying
  <2>2. \A o \in ChainOwners : relay'[o] \in {DirectConfig, desired[o]}
    BY <1>7, ConfigFacts DEF ApplyStop, ChainTyped
  <2>3. UNCHANGED <<chainConfig, desired, applyLock, unapplied>>
    BY <1>7 DEF ApplyStop, stores, histories
  <2> QED
    BY <1>7, <2>1, <2>2, <2>3 DEF At, GoesOn, At3, Applying
<1>8. ASSUME NEW t \in ChainThreads, ApplyStart(t) PROVE Applying'
  <2>1. /\ GoesOn(t, Rest) \/ GoesOn(t, At3(t, "read", pending[t].cfg))
        /\ applyLock = t /\ At(t, "start") /\ applyLock' = NoOwner /\ chainConfig' = chainConfig
    BY <1>8, ThreadEntrySteps DEF ApplyStart, At, Applying, stores
  <2>2. /\ pending'[t].place \in {"off", "read"}
        /\ \A u \in ChainThreads \ {t} : pending'[u] = pending[u]
    BY <2>1 DEF GoesOn, At3, Rest
  <2>3. \A u \in ChainThreads : pending'[u].place \notin {"stop", "start"}
    BY <2>1, <2>2 DEF Applying
  <2>4. NoOwner \notin ChainThreads
    BY ProxyChainsAssumption DEF NoOwner
  <2>5. ASSUME \A u \in ChainThreads : ~At(u, "lock")',  NEW o \in ChainOwners \ unapplied'
        PROVE  relay'[o] = chainConfig[o]
    <3>1. \A u \in ChainThreads : ~At(u, "lock")
      BY <2>1, <2>2, <2>5 DEF At
    <3>2. desired[o] = chainConfig[o] /\ relay[o] \in {DirectConfig, desired[o]}
      BY <2>1, <2>4, <3>1 DEF Applying
    <3>3. o \notin Starting => relay[o] = desired[o]
      BY <3>2, ConfigFacts DEF Starting, ChainTyped
    <3> QED
      BY <1>8, <2>5, <3>2, <3>3 DEF ApplyStart, Starting
  <2> QED
    BY <2>1, <2>3, <2>4, <2>5 DEF Applying, At
<1>9. ASSUME NEW t \in ChainThreads, RefreshRead(t) PROVE Applying'
  <2>1. /\ pending[t].place \in {"read", "wait", "fetch", "check"}
        /\ pending'[t].place \in {"off", "wait", "fetch", "check"}
    BY <1>9, PlaceSteps DEF At
  <2>2. \A u \in ChainThreads \ {t} : pending'[u] = pending[u]
    BY <1>9, PlaceSteps DEF ChainStep
  <2>3. SameTurns
    BY <1>9, <2>1, <2>2 DEF RefreshRead, SameTurns, stores, histories
  <2> QED
    BY <2>3, TurnsKeptApplying
<1>10. ASSUME NEW t \in ChainThreads, RefreshWait(t) PROVE Applying'
  <2>1. /\ pending[t].place \in {"read", "wait", "fetch", "check"}
        /\ pending'[t].place \in {"off", "wait", "fetch", "check"}
    BY <1>10, PlaceSteps DEF At
  <2>2. \A u \in ChainThreads \ {t} : pending'[u] = pending[u]
    BY <1>10, PlaceSteps DEF ChainStep
  <2>3. SameTurns
    BY <1>10, <2>1, <2>2 DEF RefreshWait, SameTurns, stores, histories
  <2> QED
    BY <2>3, TurnsKeptApplying
<1>11. ASSUME NEW t \in ChainThreads, RefreshFetch(t) PROVE Applying'
  <2>1. /\ pending[t].place \in {"read", "wait", "fetch", "check"}
        /\ pending'[t].place \in {"off", "wait", "fetch", "check"}
    BY <1>11, PlaceSteps DEF At
  <2>2. \A u \in ChainThreads \ {t} : pending'[u] = pending[u]
    BY <1>11, PlaceSteps DEF ChainStep
  <2>3. SameTurns
    BY <1>11, <2>1, <2>2 DEF RefreshFetch, SameTurns, stores, histories
  <2> QED
    BY <2>3, TurnsKeptApplying
<1>12. ASSUME NEW t \in ChainThreads, ReadyCheck(t) PROVE Applying'
  <2>1. /\ pending[t].place \in {"read", "wait", "fetch", "check"}
        /\ pending'[t].place \in {"off", "wait", "fetch", "check"}
    BY <1>12, PlaceSteps DEF At
  <2>2. \A u \in ChainThreads \ {t} : pending'[u] = pending[u]
    BY <1>12, PlaceSteps DEF ChainStep
  <2>3. SameTurns
    BY <1>12, <2>1, <2>2 DEF ReadyCheck, SameTurns, stores, histories
  <2> QED
    BY <2>3, TurnsKeptApplying
<1>13. ASSUME NEW o \in ChainOwners, AskCache(o) PROVE Applying'
  <2>1. SameTurns
    BY <1>13 DEF AskCache, SameTurns, stores, histories
  <2> QED
    BY <2>1, TurnsKeptApplying
<1>14. ASSUME NEW o \in ChainOwners, AskWait(o) PROVE Applying'
  <2>1. SameTurns
    BY <1>14 DEF AskWait, SameTurns, stores, histories
  <2> QED
    BY <2>1, TurnsKeptApplying
<1>15. ASSUME NEW o \in ChainOwners, AskFetch(o) PROVE Applying'
  <2>1. SameTurns
    BY <1>15 DEF AskFetch, SameTurns, stores, histories
  <2> QED
    BY <2>1, TurnsKeptApplying
<1>16. ASSUME NEW o \in ChainOwners, CacheExpires(o) PROVE Applying'
  <2>1. SameTurns
    BY <1>16 DEF CacheExpires, SameTurns, stores, histories
  <2> QED
    BY <2>1, TurnsKeptApplying
<1>17. CASE ConsoleRestart
  <2>1. NoOwner \notin ChainThreads /\ \A u \in ChainThreads : pending'[u].place = "off"
    BY <1>17, ProxyChainsAssumption DEF ConsoleRestart, NoOwner, Rest
  <2>2. \A o \in ChainOwners \ unapplied' : relay'[o] = chainConfig'[o]
    BY <1>17 DEF ConsoleRestart, stores
  <2> QED
    BY <1>17, <2>1, <2>2 DEF ConsoleRestart, Applying, At
<1>18. CASE UNCHANGED chainVars
  <2>1. SameTurns
    BY <1>18 DEF chainVars, SameTurns, stores, histories
  <2> QED
    BY <2>1, TurnsKeptApplying
<1> QED
  BY ProxyChainsAssumption, <1>1, <1>2, <1>3, <1>4, <1>5, <1>6, <1>7, <1>8, <1>9, <1>10, <1>11,
     <1>12, <1>13, <1>14, <1>15, <1>16, <1>17, <1>18
     DEF ChainNext, ChainStep

\* No thread has come to store a configuration.
NoNewChoice ==
  /\ chainConfig' = chainConfig /\ clashed \subseteq clashed'
  /\ \A u \in ChainThreads :
       pending'[u].place = "store" /\ pending'[u].op = "chain" => pending'[u] = pending[u]

LEMMA ChoicesKept ==
  ASSUME ChainTyped, PortsAreKept, NoNewChoice
  PROVE  PortsAreKept'
<1>1. PortsAreDistinct'
  BY DEF PortsAreKept, PortsAreDistinct, NoNewChoice
<1>2. ASSUME NEW t \in ChainThreads, Choosing(t)' PROVE ChosenPortIsFree(t)'
  <2>1. Choosing(t) /\ pending'[t] = pending[t]
    BY <1>2 DEF Choosing, At, NoNewChoice
  <2>2. \A u \in ChainThreads : Choosing(u)' => Choosing(u) /\ pending'[u] = pending[u]
    BY DEF Choosing, At, NoNewChoice
  <2> QED
    BY <2>1, <2>2 DEF PortsAreKept, ChosenPortIsFree, NoNewChoice
<1> QED
  BY <1>1, <1>2 DEF PortsAreKept

LEMMA PortsStep ==
  ASSUME ChainTyped, PortsAreKept, [ChainNext]_chainVars
  PROVE  PortsAreKept'
<1>1. ASSUME NEW t \in ChainThreads, NEW o \in ChainOwners, BeginChain(t, o) PROVE PortsAreKept'
  <2>1. GoesOn(t, [op |-> "chain", place |-> "prepare", owner |-> o, cfg |-> [source |-> sources + 1, port |-> NoPort]])
    BY <1>1, ThreadEntrySteps
  <2> QED
    BY <1>1, <2>1, ChoicesKept DEF BeginChain, GoesOn, NoNewChoice, histories
<1>2. ASSUME NEW t \in ChainThreads, NEW o \in ChainOwners, BeginDirect(t, o) PROVE PortsAreKept'
  <2>1. GoesOn(t, [op |-> "direct", place |-> "store", owner |-> o, cfg |-> DirectConfig])
    BY <1>2, ThreadEntrySteps
  <2> QED
    BY <1>2, <2>1, ChoicesKept DEF BeginDirect, GoesOn, NoNewChoice, histories
<1>3. ASSUME NEW t \in ChainThreads, NEW o \in ChainOwners, BeginReady(t, o) PROVE PortsAreKept'
  <2>1. GoesOn(t, [op |-> "ready", place |-> "lock", owner |-> o, cfg |-> DirectConfig])
    BY <1>3, ThreadEntrySteps
  <2> QED
    BY <1>3, <2>1, ChoicesKept DEF BeginReady, GoesOn, NoNewChoice, histories
<1>4. ASSUME NEW t \in ChainThreads, Prepare(t) PROVE PortsAreKept'
  <2> DEFINE o == pending[t].owner
             new == [source |-> pending[t].cfg.source, port |-> chainConfig[o].port]
  <2>0. o \in ChainOwners /\ chainConfig' = chainConfig
    BY <1>4 DEF Prepare, ChainTyped, StoresWhole, At, stores
  <2>1. CASE GoesOn(t, Rest) /\ UNCHANGED clashed
    BY <2>0, <2>1, ChoicesKept DEF GoesOn, Rest, NoNewChoice
  <2>2. ASSUME GoesOn(t, At3(t, "store", new)), IsChain(chainConfig[o]), UNCHANGED clashed
        PROVE  PortsAreKept'
    <3>1. /\ pending'[t].owner = o /\ pending'[t].cfg.port = chainConfig[o].port
          /\ \A u \in ChainThreads \ {t} : pending'[u] = pending[u]
      BY <2>2 DEF GoesOn, At3
    <3>2. ASSUME o \notin clashed
          PROVE  /\ \A p \in ChainOwners \ clashed : p # o => chainConfig[p].port # chainConfig[o].port
                 /\ \A u \in ChainThreads \ {t} :
                      Choosing(u) /\ pending[u].owner # o => pending[u].cfg.port # chainConfig[o].port
      BY <2>0, <2>2, <3>2 DEF PortsAreKept, PortsAreDistinct, ChosenPortIsFree
    <3>3. \A u \in ChainThreads \ {t} : Choosing(u)' => Choosing(u)
      BY <2>2, <3>1 DEF Choosing, At
    <3>4. Choosing(t)' => o \notin clashed
      BY <2>2, <3>1 DEF Choosing
    <3>5. ASSUME NEW u \in ChainThreads, Choosing(u)' PROVE ChosenPortIsFree(u)'
      <4>1. CASE u = t
        BY <2>0, <2>2, <3>1, <3>2, <3>3, <3>4, <3>5, <4>1 DEF ChosenPortIsFree
      <4>2. CASE u # t
        BY <2>0, <2>2, <3>1, <3>2, <3>3, <3>4, <3>5, <4>2 DEF ChosenPortIsFree, PortsAreKept
      <4> QED
        BY <4>1, <4>2
    <3> QED
      BY <2>0, <2>2, <3>5 DEF PortsAreKept, PortsAreDistinct
  <2>3. ASSUME NEW port \in RelayPorts, port \notin TakenPorts(o),
               GoesOn(t, At3(t, "store", [source |-> pending[t].cfg.source, port |-> port])),
               LET others == {u \in ChainThreads \ {t} : pending[u].op = "chain" /\ At(u, "store")}
               IN  clashed' = IF others = {} THEN clashed
                              ELSE clashed \cup {o} \cup {pending[u].owner : u \in others}
        PROVE  PortsAreKept'
    <3>1. /\ pending'[t].owner = o /\ pending'[t].cfg.port = port
          /\ \A u \in ChainThreads \ {t} : pending'[u] = pending[u]
      BY <2>3 DEF GoesOn, At3
    <3>2. clashed \subseteq clashed'
      BY <2>3
    <3>3. \A p \in ChainOwners : chainConfig[p].port # port
      BY <2>3 DEF TakenPorts
    <3>4. \A u \in ChainThreads \ {t} : Choosing(u)' => Choosing(u) /\ ~Choosing(t)' /\ pending[u].owner \in clashed'
      BY <2>3, <3>1, <3>2 DEF Choosing, At
    <3>5. ASSUME NEW u \in ChainThreads, Choosing(u)' PROVE ChosenPortIsFree(u)'
      <4>1. u = t /\ \A v \in ChainThreads \ {t} : ~Choosing(v)'
        BY <3>1, <3>4, <3>5 DEF Choosing
      <4> QED
        BY <2>0, <3>1, <3>3, <4>1 DEF ChosenPortIsFree
    <3> QED
      BY <2>0, <3>2, <3>5 DEF PortsAreKept, PortsAreDistinct
  <2> QED
    BY <1>4, <2>1, <2>2, <2>3, PrepareStep
<1>5. ASSUME NEW t \in ChainThreads, StoreConfig(t) PROVE PortsAreKept'
  <2> DEFINE o == pending[t].owner
  <2>1. /\ GoesOn(t, At3(t, "lock", DirectConfig)) /\ o \in ChainOwners
        /\ chainConfig' = [chainConfig EXCEPT ![o] = pending[t].cfg] /\ clashed' = clashed
    BY <1>5, ThreadEntrySteps DEF StoreConfig, ChainTyped, StoresWhole, At
  <2>2. /\ ~Choosing(t)' /\ \A u \in ChainThreads \ {t} : pending'[u] = pending[u]
    BY <2>1 DEF GoesOn, At3, Choosing, At
  <2>3. /\ chainConfig'[o] = pending[t].cfg
        /\ \A p \in ChainOwners \ {o} : chainConfig'[p] = chainConfig[p]
    BY <2>1 DEF ChainTyped
  <2>4. \/ pending[t].cfg = DirectConfig
        \/ o \notin clashed => Choosing(t) /\ ChosenPortIsFree(t)
    BY <1>5 DEF StoreConfig, ChainTyped, StoresWhole, At, Choosing, PortsAreKept
  <2>5. \A u \in ChainThreads : Choosing(u)' => u # t /\ Choosing(u) /\ pending'[u] = pending[u]
    BY <2>1, <2>2 DEF Choosing, At
  <2>6. \A u \in ChainThreads : Choosing(u) => pending[u].cfg.port # DirectConfig.port
    BY ConfigFacts DEF Choosing, At, ChainTyped, StoresWhole, IsChain, DirectConfig
  <2>7. \A p \in ChainOwners : IsChain(chainConfig[p]) => chainConfig[p].port # DirectConfig.port
    BY ConfigFacts DEF ChainTyped, DirectConfig
  <2>8. ASSUME NEW p \in ChainOwners \ clashed, NEW q \in ChainOwners \ clashed, p # q, IsChain(chainConfig'[p])
        PROVE  chainConfig'[p].port # chainConfig'[q].port
    <3>1. CASE p = o
      BY <2>3, <2>4, <2>8, <3>1, ConfigFacts DEF ChosenPortIsFree
    <3>2. CASE q = o
      BY <2>3, <2>4, <2>7, <2>8, <3>2 DEF ChosenPortIsFree
    <3>3. CASE p # o /\ q # o
      BY <2>3, <2>8, <3>3 DEF PortsAreKept, PortsAreDistinct
    <3> QED
      BY <3>1, <3>2, <3>3
  <2>9. ASSUME NEW u \in ChainThreads, Choosing(u)' PROVE ChosenPortIsFree(u)'
    <3>1. Choosing(u) /\ pending'[u] = pending[u] /\ ChosenPortIsFree(u) /\ pending[u].owner \notin clashed
      BY <2>5, <2>9 DEF PortsAreKept, Choosing
    <3>2. o \notin clashed /\ pending[u].owner # o => pending[t].cfg.port # pending[u].cfg.port
      BY <2>4, <2>6, <3>1 DEF ChosenPortIsFree
    <3>3. \A p \in ChainOwners \ clashed : p # pending[u].owner => chainConfig'[p].port # pending[u].cfg.port
      BY <2>3, <3>1, <3>2 DEF ChosenPortIsFree
    <3> QED
      BY <2>1, <2>5, <3>1, <3>3 DEF ChosenPortIsFree
  <2> QED
    BY <2>1, <2>8, <2>9 DEF PortsAreKept, PortsAreDistinct
<1>6. ASSUME NEW t \in ChainThreads, ApplyLock(t) PROVE PortsAreKept'
  <2>1. /\ pending'[t].place # "store"
        /\ \A u \in ChainThreads \ {t} : pending'[u] = pending[u]
    BY <1>6, PlaceSteps DEF ChainStep
  <2> QED
    BY <1>6, <2>1, ChoicesKept DEF ApplyLock, NoNewChoice, stores, histories
<1>7. ASSUME NEW t \in ChainThreads, ApplyStop(t) PROVE PortsAreKept'
  <2>1. /\ pending'[t].place # "store"
        /\ \A u \in ChainThreads \ {t} : pending'[u] = pending[u]
    BY <1>7, PlaceSteps DEF ChainStep
  <2> QED
    BY <1>7, <2>1, ChoicesKept DEF ApplyStop, NoNewChoice, stores, histories
<1>8. ASSUME NEW t \in ChainThreads, ApplyStart(t) PROVE PortsAreKept'
  <2>1. /\ pending'[t].place # "store"
        /\ \A u \in ChainThreads \ {t} : pending'[u] = pending[u]
    BY <1>8, PlaceSteps DEF ChainStep
  <2> QED
    BY <1>8, <2>1, ChoicesKept DEF ApplyStart, NoNewChoice, stores, histories
<1>9. ASSUME NEW t \in ChainThreads, RefreshRead(t) PROVE PortsAreKept'
  <2>1. /\ pending'[t].place # "store"
        /\ \A u \in ChainThreads \ {t} : pending'[u] = pending[u]
    BY <1>9, PlaceSteps DEF ChainStep
  <2> QED
    BY <1>9, <2>1, ChoicesKept DEF RefreshRead, NoNewChoice, stores, histories
<1>10. ASSUME NEW t \in ChainThreads, RefreshWait(t) PROVE PortsAreKept'
  <2>1. /\ pending'[t].place # "store"
        /\ \A u \in ChainThreads \ {t} : pending'[u] = pending[u]
    BY <1>10, PlaceSteps DEF ChainStep
  <2> QED
    BY <1>10, <2>1, ChoicesKept DEF RefreshWait, NoNewChoice, stores, histories
<1>11. ASSUME NEW t \in ChainThreads, RefreshFetch(t) PROVE PortsAreKept'
  <2>1. /\ pending'[t].place # "store"
        /\ \A u \in ChainThreads \ {t} : pending'[u] = pending[u]
    BY <1>11, PlaceSteps DEF ChainStep
  <2> QED
    BY <1>11, <2>1, ChoicesKept DEF RefreshFetch, NoNewChoice, stores, histories
<1>12. ASSUME NEW t \in ChainThreads, ReadyCheck(t) PROVE PortsAreKept'
  <2>1. /\ pending'[t].place # "store"
        /\ \A u \in ChainThreads \ {t} : pending'[u] = pending[u]
    BY <1>12, PlaceSteps DEF ChainStep
  <2> QED
    BY <1>12, <2>1, ChoicesKept DEF ReadyCheck, NoNewChoice, stores, histories
<1>13. ASSUME NEW o \in ChainOwners, AskCache(o) PROVE PortsAreKept'
  BY <1>13, ChoicesKept DEF AskCache, NoNewChoice, stores, histories
<1>14. ASSUME NEW o \in ChainOwners, AskWait(o) PROVE PortsAreKept'
  BY <1>14, ChoicesKept DEF AskWait, NoNewChoice, stores, histories
<1>15. ASSUME NEW o \in ChainOwners, AskFetch(o) PROVE PortsAreKept'
  BY <1>15, ChoicesKept DEF AskFetch, NoNewChoice, stores, histories
<1>16. ASSUME NEW o \in ChainOwners, CacheExpires(o) PROVE PortsAreKept'
  BY <1>16, ChoicesKept DEF CacheExpires, NoNewChoice, stores, histories
<1>17. CASE ConsoleRestart
  BY <1>17, ChoicesKept DEF ConsoleRestart, Rest, NoNewChoice, stores
<1>18. CASE UNCHANGED chainVars
  BY <1>18, ChoicesKept DEF chainVars, NoNewChoice, stores, histories
<1> QED
  BY ProxyChainsAssumption, <1>1, <1>2, <1>3, <1>4, <1>5, <1>6, <1>7, <1>8, <1>9, <1>10, <1>11,
     <1>12, <1>13, <1>14, <1>15, <1>16, <1>17, <1>18
     DEF ChainNext, ChainStep

\* No thread has begun to configure a chain, and no configuration was stored.
NoNewSource ==
  /\ sources' \in {sources, sources + 1}
  /\ \A o \in ChainOwners :
       {chainConfig'[o].source, relay'[o].source, desired'[o].source}
         \subseteq {chainConfig[o].source, relay[o].source, desired[o].source, 0}
  /\ \A u \in ChainThreads :
       pending'[u].op = "chain" /\ pending'[u].place \in {"prepare", "store"}
         => Configures(u) /\ pending'[u].cfg.source = pending[u].cfg.source

LEMMA ConfiguredSources ==
  ASSUME ChainTyped, NEW t \in ChainThreads, Configures(t)
  PROVE  pending[t].cfg.source \in Nat \ {0}
BY ConfigFacts, GoingOn DEF Configures, ChainTyped, StoresWhole, At, IsChain, ThreadEntries, Cfgs

LEMMA SourcesKept ==
  ASSUME ChainTyped, SourcesAreNew, NoNewSource
  PROVE  SourcesAreNew'
<1>1. \A o \in ChainOwners :
        /\ chainConfig[o].source \in Nat /\ relay[o].source \in Nat /\ desired[o].source \in Nat
        /\ sources \in Nat
  BY ConfigFacts DEF ChainTyped
<1>2. ASSUME NEW o \in ChainOwners
      PROVE  chainConfig'[o].source <= sources' /\ relay'[o].source <= sources' /\ desired'[o].source <= sources'
  BY <1>1 DEF SourcesAreNew, NoNewSource
<1>3. ASSUME NEW u \in ChainThreads, Configures(u)'
      PROVE  pending'[u].cfg.source <= sources' /\ SourceIsNew(u)'
  <2>1. Configures(u) /\ pending'[u].cfg.source = pending[u].cfg.source
    BY <1>3 DEF NoNewSource, Configures
  <2>2. pending[u].cfg.source \in Nat \ {0} /\ SourceIsNew(u) /\ pending[u].cfg.source <= sources
    BY <2>1, ConfiguredSources DEF SourcesAreNew
  <2>3. \A v \in ChainThreads : Configures(v)' => Configures(v) /\ pending'[v].cfg.source = pending[v].cfg.source
    BY DEF NoNewSource, Configures
  <2>4. sources' \in Nat /\ sources <= sources'
    BY DEF ChainTyped, NoNewSource
  <2>5. \A o \in ChainOwners :
          pending[u].cfg.source \notin {chainConfig'[o].source, relay'[o].source, desired'[o].source}
    BY <2>2 DEF SourceIsNew, NoNewSource
  <2> QED
    BY <2>1, <2>2, <2>3, <2>4, <2>5 DEF SourceIsNew, ChainTyped
<1> QED
  BY <1>2, <1>3 DEF SourcesAreNew

LEMMA SourcesStep ==
  ASSUME ChainTyped, SourcesAreNew, [ChainNext]_chainVars
  PROVE  SourcesAreNew'
<1>1. ASSUME NEW t \in ChainThreads, NEW o \in ChainOwners, BeginChain(t, o) PROVE SourcesAreNew'
  <2>1. GoesOn(t, [op |-> "chain", place |-> "prepare", owner |-> o, cfg |-> [source |-> sources + 1, port |-> NoPort]])
    BY <1>1, ThreadEntrySteps
  <2>2. /\ pending'[t].cfg.source = sources + 1
        /\ \A u \in ChainThreads \ {t} : pending'[u] = pending[u]
    BY <2>1 DEF GoesOn
  <2>3. sources' = sources + 1 /\ UNCHANGED <<chainConfig, relay, desired>>
    BY <1>1 DEF BeginChain, Begins
  <2>4. \A p \in ChainOwners :
          /\ chainConfig[p].source \in Nat /\ relay[p].source \in Nat /\ desired[p].source \in Nat
          /\ sources \in Nat
    BY ConfigFacts DEF ChainTyped
  <2>5. \A u \in ChainThreads : Configures(u) => pending[u].cfg.source \in Nat /\ pending[u].cfg.source <= sources
    BY ConfiguredSources DEF SourcesAreNew
  <2>6. \A u \in ChainThreads \ {t} : Configures(u)' <=> Configures(u)
    BY <2>2 DEF Configures
  <2>7. SourceIsNew(t)' /\ pending'[t].cfg.source <= sources'
    BY <2>2, <2>3, <2>4, <2>5, <2>6 DEF SourceIsNew, SourcesAreNew
  <2>8. ASSUME NEW u \in ChainThreads \ {t}, Configures(u)'
        PROVE  pending'[u].cfg.source <= sources' /\ SourceIsNew(u)'
    <3>1. Configures(u) /\ SourceIsNew(u) /\ pending'[u] = pending[u]
      BY <2>2, <2>6, <2>8 DEF SourcesAreNew
    <3>2. pending[u].cfg.source <= sources + 1 /\ pending[u].cfg.source # sources + 1 /\ sources \in Nat
      BY <2>5, <3>1 DEF ChainTyped
    <3> QED
      BY <2>2, <2>3, <2>6, <3>1, <3>2 DEF SourceIsNew
  <2>9. \A p \in ChainOwners :
          chainConfig[p].source <= sources + 1 /\ relay[p].source <= sources + 1 /\ desired[p].source <= sources + 1
    BY <2>4 DEF SourcesAreNew
  <2> QED
    BY <2>3, <2>7, <2>8, <2>9 DEF SourcesAreNew
<1>2. ASSUME NEW t \in ChainThreads, NEW o \in ChainOwners, BeginDirect(t, o) PROVE SourcesAreNew'
  <2>1. GoesOn(t, [op |-> "direct", place |-> "store", owner |-> o, cfg |-> DirectConfig])
    BY <1>2, ThreadEntrySteps
  <2> QED
    BY <1>2, <2>1, SourcesKept DEF BeginDirect, Begins, GoesOn, NoNewSource, Configures
<1>3. ASSUME NEW t \in ChainThreads, NEW o \in ChainOwners, BeginReady(t, o) PROVE SourcesAreNew'
  <2>1. GoesOn(t, [op |-> "ready", place |-> "lock", owner |-> o, cfg |-> DirectConfig])
    BY <1>3, ThreadEntrySteps
  <2> QED
    BY <1>3, <2>1, SourcesKept DEF BeginReady, Begins, GoesOn, NoNewSource, Configures
<1>4. ASSUME NEW t \in ChainThreads, Prepare(t) PROVE SourcesAreNew'
  <2>1. At(t, "prepare") /\ UNCHANGED <<sources, chainConfig, relay, desired>>
    BY <1>4 DEF Prepare, stores
  <2>2. CASE GoesOn(t, Rest)
    BY <2>1, <2>2, SourcesKept DEF GoesOn, Rest, NoNewSource, Configures
  <2>3. ASSUME NEW port \in RelayPorts,
               GoesOn(t, At3(t, "store", [source |-> pending[t].cfg.source, port |-> port]))
        PROVE  SourcesAreNew'
    BY <2>1, <2>3, SourcesKept DEF GoesOn, At3, At, NoNewSource, Configures
  <2> QED
    BY <1>4, <2>2, <2>3, PrepareStep
<1>5. ASSUME NEW t \in ChainThreads, StoreConfig(t) PROVE SourcesAreNew'
  <2> DEFINE o == pending[t].owner
  <2>1. /\ GoesOn(t, At3(t, "lock", DirectConfig)) /\ o \in ChainOwners
        /\ chainConfig' = [chainConfig EXCEPT ![o] = pending[t].cfg] /\ UNCHANGED <<sources, relay, desired>>
    BY <1>5, ThreadEntrySteps DEF StoreConfig, ChainTyped, StoresWhole, At
  <2>2. /\ ~Configures(t)' /\ \A u \in ChainThreads \ {t} : pending'[u] = pending[u]
    BY <2>1 DEF GoesOn, At3, Configures
  <2>3. /\ chainConfig'[o] = pending[t].cfg
        /\ \A p \in ChainOwners \ {o} : chainConfig'[p] = chainConfig[p]
    BY <2>1 DEF ChainTyped
  <2>4. pending[t].cfg = DirectConfig \/ Configures(t)
    BY <1>5 DEF StoreConfig, ChainTyped, StoresWhole, At, Configures
  <2>5. pending[t].cfg.source <= sources
    BY <2>4 DEF SourcesAreNew, ChainTyped, DirectConfig
  <2>6. ASSUME NEW u \in ChainThreads, Configures(u)'
        PROVE  u # t /\ Configures(u) /\ pending'[u] = pending[u] /\ pending[u].cfg.source # pending[t].cfg.source
    <3>1. u # t /\ Configures(u) /\ pending'[u] = pending[u]
      BY <2>2, <2>6 DEF Configures
    <3>2. pending[u].cfg.source # 0
      BY <3>1, ConfiguredSources
    <3> QED
      BY <2>4, <3>1, <3>2 DEF SourcesAreNew, SourceIsNew, DirectConfig
  <2>7. ASSUME NEW u \in ChainThreads, Configures(u)'
        PROVE  pending'[u].cfg.source <= sources' /\ SourceIsNew(u)'
    <3>1. SourceIsNew(u) /\ pending[u].cfg.source <= sources
      BY <2>6, <2>7 DEF SourcesAreNew
    <3>2. \A v \in ChainThreads \ {u} : Configures(v)' => pending'[v].cfg.source # pending'[u].cfg.source
      BY <2>6, <2>7, <3>1 DEF SourceIsNew
    <3>3. \A p \in ChainOwners :
            pending'[u].cfg.source \notin {chainConfig'[p].source, relay'[p].source, desired'[p].source}
      BY <2>1, <2>3, <2>6, <2>7, <3>1 DEF SourceIsNew
    <3> QED
      BY <2>1, <2>6, <2>7, <3>1, <3>2, <3>3 DEF SourceIsNew
  <2> QED
    BY <2>1, <2>3, <2>5, <2>7 DEF SourcesAreNew
<1>6. ASSUME NEW t \in ChainThreads, ApplyLock(t) PROVE SourcesAreNew'
  <2>1. /\ pending'[t].place \notin {"prepare", "store"}
        /\ \A u \in ChainThreads \ {t} : pending'[u] = pending[u]
    BY <1>6, PlaceSteps DEF ChainStep
  <2>2. /\ sources' = sources
        /\ \A o \in ChainOwners :
             {chainConfig'[o].source, relay'[o].source, desired'[o].source}
               \subseteq {chainConfig[o].source, relay[o].source, desired[o].source, 0}
    BY <1>6 DEF ApplyLock, stores, histories
  <2> QED
    BY <2>1, <2>2, SourcesKept DEF NoNewSource, Configures
<1>7. ASSUME NEW t \in ChainThreads, ApplyStop(t) PROVE SourcesAreNew'
  <2>1. /\ pending'[t].place \notin {"prepare", "store"}
        /\ \A u \in ChainThreads \ {t} : pending'[u] = pending[u]
    BY <1>7, PlaceSteps DEF ChainStep
  <2>2. /\ sources' = sources
        /\ \A o \in ChainOwners :
             {chainConfig'[o].source, relay'[o].source, desired'[o].source}
               \subseteq {chainConfig[o].source, relay[o].source, desired[o].source, 0}
    BY <1>7 DEF ApplyStop, stores, histories, DirectConfig
  <2> QED
    BY <2>1, <2>2, SourcesKept DEF NoNewSource, Configures
<1>8. ASSUME NEW t \in ChainThreads, ApplyStart(t) PROVE SourcesAreNew'
  <2>1. /\ pending'[t].place \notin {"prepare", "store"}
        /\ \A u \in ChainThreads \ {t} : pending'[u] = pending[u]
    BY <1>8, PlaceSteps DEF ChainStep
  <2>2. /\ sources' = sources
        /\ \A o \in ChainOwners :
             {chainConfig'[o].source, relay'[o].source, desired'[o].source}
               \subseteq {chainConfig[o].source, relay[o].source, desired[o].source, 0}
    BY <1>8 DEF ApplyStart, stores, histories, Starting, DirectConfig
  <2> QED
    BY <2>1, <2>2, SourcesKept DEF NoNewSource, Configures
<1>9. ASSUME NEW t \in ChainThreads, RefreshRead(t) PROVE SourcesAreNew'
  <2>1. /\ pending'[t].place \notin {"prepare", "store"}
        /\ \A u \in ChainThreads \ {t} : pending'[u] = pending[u]
    BY <1>9, PlaceSteps DEF ChainStep
  <2>2. /\ sources' = sources
        /\ \A o \in ChainOwners :
             {chainConfig'[o].source, relay'[o].source, desired'[o].source}
               \subseteq {chainConfig[o].source, relay[o].source, desired[o].source, 0}
    BY <1>9 DEF RefreshRead, stores, histories
  <2> QED
    BY <2>1, <2>2, SourcesKept DEF NoNewSource, Configures
<1>10. ASSUME NEW t \in ChainThreads, RefreshWait(t) PROVE SourcesAreNew'
  <2>1. /\ pending'[t].place \notin {"prepare", "store"}
        /\ \A u \in ChainThreads \ {t} : pending'[u] = pending[u]
    BY <1>10, PlaceSteps DEF ChainStep
  <2>2. /\ sources' = sources
        /\ \A o \in ChainOwners :
             {chainConfig'[o].source, relay'[o].source, desired'[o].source}
               \subseteq {chainConfig[o].source, relay[o].source, desired[o].source, 0}
    BY <1>10 DEF RefreshWait, stores, histories
  <2> QED
    BY <2>1, <2>2, SourcesKept DEF NoNewSource, Configures
<1>11. ASSUME NEW t \in ChainThreads, RefreshFetch(t) PROVE SourcesAreNew'
  <2>1. /\ pending'[t].place \notin {"prepare", "store"}
        /\ \A u \in ChainThreads \ {t} : pending'[u] = pending[u]
    BY <1>11, PlaceSteps DEF ChainStep
  <2>2. /\ sources' = sources
        /\ \A o \in ChainOwners :
             {chainConfig'[o].source, relay'[o].source, desired'[o].source}
               \subseteq {chainConfig[o].source, relay[o].source, desired[o].source, 0}
    BY <1>11 DEF RefreshFetch, stores, histories
  <2> QED
    BY <2>1, <2>2, SourcesKept DEF NoNewSource, Configures
<1>12. ASSUME NEW t \in ChainThreads, ReadyCheck(t) PROVE SourcesAreNew'
  <2>1. /\ pending'[t].place \notin {"prepare", "store"}
        /\ \A u \in ChainThreads \ {t} : pending'[u] = pending[u]
    BY <1>12, PlaceSteps DEF ChainStep
  <2>2. /\ sources' = sources
        /\ \A o \in ChainOwners :
             {chainConfig'[o].source, relay'[o].source, desired'[o].source}
               \subseteq {chainConfig[o].source, relay[o].source, desired[o].source, 0}
    BY <1>12 DEF ReadyCheck, stores, histories
  <2> QED
    BY <2>1, <2>2, SourcesKept DEF NoNewSource, Configures
<1>13. ASSUME NEW o \in ChainOwners, AskCache(o) PROVE SourcesAreNew'
  BY <1>13, SourcesKept DEF AskCache, NoNewSource, Configures, stores, histories
<1>14. ASSUME NEW o \in ChainOwners, AskWait(o) PROVE SourcesAreNew'
  BY <1>14, SourcesKept DEF AskWait, NoNewSource, Configures, stores, histories
<1>15. ASSUME NEW o \in ChainOwners, AskFetch(o) PROVE SourcesAreNew'
  BY <1>15, SourcesKept DEF AskFetch, NoNewSource, Configures, stores, histories
<1>16. ASSUME NEW o \in ChainOwners, CacheExpires(o) PROVE SourcesAreNew'
  BY <1>16, SourcesKept DEF CacheExpires, NoNewSource, Configures, stores, histories
<1>17. CASE ConsoleRestart
  BY <1>17, SourcesKept DEF ConsoleRestart, Rest, NoNewSource, Configures, stores, DirectConfig
<1>18. CASE UNCHANGED chainVars
  BY <1>18, SourcesKept DEF chainVars, NoNewSource, Configures, stores, histories
<1> QED
  BY ProxyChainsAssumption, <1>1, <1>2, <1>3, <1>4, <1>5, <1>6, <1>7, <1>8, <1>9, <1>10, <1>11,
     <1>12, <1>13, <1>14, <1>15, <1>16, <1>17, <1>18
     DEF ChainNext, ChainStep

\* No thread has begun to ask, and nothing that was asked for has changed.
NobodyAsks ==
  /\ UNCHANGED <<asks, cache, relay, chainConfig, outdated>>
  /\ \A u \in ChainThreads : pending'[u].place \in {"wait", "fetch"} =>
       /\ pending[u].place \in {"wait", "fetch"}
       /\ pending'[u].owner = pending[u].owner /\ pending'[u].cfg = pending[u].cfg

LEMMA HopsKept ==
  ASSUME HopsAreCurrent, NobodyAsks
  PROVE  HopsAreCurrent'
BY DEF HopsAreCurrent, HopIsCurrent, Asking, NobodyAsks

LEMMA HopsStep ==
  ASSUME ChainTyped, SourcesAreNew, HopsAreCurrent, [ChainNext]_chainVars
  PROVE  HopsAreCurrent'
<1>1. ASSUME NEW t \in ChainThreads, NEW o \in ChainOwners, BeginChain(t, o) PROVE HopsAreCurrent'
  <2>1. GoesOn(t, [op |-> "chain", place |-> "prepare", owner |-> o, cfg |-> [source |-> sources + 1, port |-> NoPort]])
    BY <1>1, ThreadEntrySteps
  <2> QED
    BY <1>1, <2>1, HopsKept DEF BeginChain, GoesOn, NobodyAsks, histories
<1>2. ASSUME NEW t \in ChainThreads, NEW o \in ChainOwners, BeginDirect(t, o) PROVE HopsAreCurrent'
  <2>1. GoesOn(t, [op |-> "direct", place |-> "store", owner |-> o, cfg |-> DirectConfig])
    BY <1>2, ThreadEntrySteps
  <2> QED
    BY <1>2, <2>1, HopsKept DEF BeginDirect, GoesOn, NobodyAsks, histories
<1>3. ASSUME NEW t \in ChainThreads, NEW o \in ChainOwners, BeginReady(t, o) PROVE HopsAreCurrent'
  <2>1. GoesOn(t, [op |-> "ready", place |-> "lock", owner |-> o, cfg |-> DirectConfig])
    BY <1>3, ThreadEntrySteps
  <2> QED
    BY <1>3, <2>1, HopsKept DEF BeginReady, GoesOn, NobodyAsks, histories
<1>4. ASSUME NEW t \in ChainThreads, Prepare(t) PROVE HopsAreCurrent'
  <2>1. /\ pending'[t].place \notin {"wait", "fetch"}
        /\ \A u \in ChainThreads \ {t} : pending'[u] = pending[u]
    BY <1>4, PlaceSteps DEF ChainStep
  <2> QED
    BY <1>4, <2>1, HopsKept DEF Prepare, NobodyAsks, stores, histories
<1>5. ASSUME NEW t \in ChainThreads, StoreConfig(t) PROVE HopsAreCurrent'
  <2>0. PICK o \in ChainOwners : o = pending[t].owner
    BY <1>5 DEF StoreConfig, ChainTyped, StoresWhole, At
  <2>1. /\ pending'[t].place = "lock" /\ pending[t].place = "store"
        /\ \A u \in ChainThreads \ {t} : pending'[u] = pending[u]
    BY <1>5, PlaceSteps DEF ChainStep, At
  <2>2. \A p : Asking(p)' = Asking(p) /\ \A u \in Asking(p) : pending'[u] = pending[u]
    BY <2>1 DEF Asking
  <2>3. /\ chainConfig' = [chainConfig EXCEPT ![o] = pending[t].cfg]
        /\ UNCHANGED <<asks, cache, relay>>
        /\ outdated' = IF Asking(o) # {} \/ asks[o].place # "off" THEN outdated \cup {o} ELSE outdated
    BY <1>5, <2>0 DEF StoreConfig
  <2>4. ASSUME NEW p \in ChainOwners \ outdated', p # o PROVE HopIsCurrent(p)'
    <3>1. HopIsCurrent(p) /\ chainConfig'[p] = chainConfig[p]
      BY <2>3, <2>4 DEF HopsAreCurrent, ChainTyped
    <3> QED
      BY <2>2, <2>3, <3>1 DEF HopIsCurrent
  <2>5. ASSUME o \notin outdated' PROVE HopIsCurrent(o)'
    <3>1. HopIsCurrent(o) /\ Asking(o) = {} /\ asks[o].place = "off"
      BY <2>3, <2>5 DEF HopsAreCurrent
    <3>2. IsChain(relay[o]) => relay[o] # pending[t].cfg
      BY <1>5, <2>3, ConfigFacts DEF StoreConfig, ChainTyped, StoresWhole, At, SourcesAreNew,
         SourceIsNew,
         Configures
    <3>3. chainConfig'[o] = pending[t].cfg
      BY <2>3 DEF ChainTyped
    <3> QED
      BY <2>2, <2>3, <3>1, <3>2, <3>3 DEF HopIsCurrent
  <2> QED
    BY <2>4, <2>5 DEF HopsAreCurrent
<1>6. ASSUME NEW t \in ChainThreads, ApplyLock(t) PROVE HopsAreCurrent'
  <2>1. /\ pending'[t].place \notin {"wait", "fetch"}
        /\ \A u \in ChainThreads \ {t} : pending'[u] = pending[u]
    BY <1>6, PlaceSteps DEF ChainStep
  <2> QED
    BY <1>6, <2>1, HopsKept DEF ApplyLock, NobodyAsks, stores, histories
<1>7. ASSUME NEW t \in ChainThreads, ApplyStop(t) PROVE HopsAreCurrent'
  <2>1. \A p : Asking(p)' = Asking(p) /\ \A u \in Asking(p) : pending'[u] = pending[u]
    <3>1. /\ pending'[t].place = "start" /\ pending[t].place = "stop"
          /\ \A u \in ChainThreads \ {t} : pending'[u] = pending[u]
      BY <1>7, PlaceSteps DEF ChainStep, At
    <3> QED
      BY <3>1 DEF Asking
  <2>2. UNCHANGED <<asks, chainConfig, outdated>>
    BY <1>7 DEF ApplyStop, stores, histories
  <2>3. ASSUME NEW p \in ChainOwners
        PROVE  \/ relay'[p] = relay[p] /\ cache'[p] = cache[p]
               \/ relay'[p] = DirectConfig /\ cache'[p] = 0
    BY <1>7 DEF ApplyStop
  <2> QED
    BY <2>1, <2>2, <2>3, ConfigFacts DEF HopsAreCurrent, HopIsCurrent
<1>8. ASSUME NEW t \in ChainThreads, ApplyStart(t) PROVE HopsAreCurrent'
  <2>1. \A p : Asking(p)' = Asking(p) /\ \A u \in Asking(p) : pending'[u] = pending[u]
    <3>1. /\ pending'[t].place \in {"off", "read"} /\ pending[t].place = "start"
          /\ \A u \in ChainThreads \ {t} : pending'[u] = pending[u]
      BY <1>8, PlaceSteps DEF ChainStep, At
    <3> QED
      BY <3>1 DEF Asking
  <2>2. UNCHANGED <<asks, chainConfig, cache>>
    BY <1>8 DEF ApplyStart, stores
  <2>3. outdated \subseteq outdated'
    BY <1>8 DEF ApplyStart
  <2>4. ASSUME NEW p \in ChainOwners
        PROVE  relay'[p] = relay[p] \/ (~IsChain(relay[p]) /\ IsChain(relay'[p]))
    <3>1. CASE relay' = relay
      BY <3>1
    <3>2. CASE relay' = [o \in ChainOwners |-> IF o \in Starting THEN desired[o] ELSE relay[o]]
      BY <3>2 DEF Starting
    <3> QED
      BY <1>8, <3>1, <3>2 DEF ApplyStart
  <2> QED
    BY <2>1, <2>2, <2>3, <2>4 DEF HopsAreCurrent, HopIsCurrent
<1>9. ASSUME NEW t \in ChainThreads, RefreshRead(t) PROVE HopsAreCurrent'
  <2> DEFINE o == pending[t].owner
  <2>1. UNCHANGED <<asks, cache, relay, chainConfig, outdated>>
    BY <1>9 DEF RefreshRead, stores, histories
  <2>2. CASE GoesOn(t, Rest)
    BY <2>1, <2>2, HopsKept DEF GoesOn, Rest, NobodyAsks
  <2>3. CASE GoesOn(t, At3(t, "wait", chainConfig[o]))
    <3>1. /\ pending'[t].owner = o /\ pending'[t].cfg = chainConfig[o]
          /\ \A u \in ChainThreads \ {t} : pending'[u] = pending[u]
      BY <2>3 DEF GoesOn, At3
    <3>2. \A p \in ChainOwners, u \in ChainThreads \ {t} : u \in Asking(p)' <=> u \in Asking(p)
      BY <3>1 DEF Asking
    <3>3. \A p \in ChainOwners : t \in Asking(p)' => p = o
      BY <3>1 DEF Asking
    <3>4. \A p \in ChainOwners : Asking(p)' \subseteq ChainThreads
      BY DEF Asking
    <3>5. ASSUME NEW p \in ChainOwners \ outdated, NEW u \in Asking(p)'
          PROVE  pending'[u].cfg.source = chainConfig[p].source
      BY <3>1, <3>2, <3>3, <3>4, <3>5 DEF HopsAreCurrent, HopIsCurrent
    <3> QED
      BY <2>1, <3>5 DEF HopsAreCurrent, HopIsCurrent
  <2> QED
    BY <1>9, <2>2, <2>3, ThreadEntrySteps
<1>10. ASSUME NEW t \in ChainThreads, RefreshWait(t) PROVE HopsAreCurrent'
  <2>1. GoesOn(t, At3(t, "fetch", pending[t].cfg)) /\ At(t, "wait")
    BY <1>10, ThreadEntrySteps, PlaceSteps
  <2> QED
    BY <1>10, <2>1, HopsKept DEF RefreshWait, GoesOn, At3, At, NobodyAsks, stores, histories
<1>11. ASSUME NEW t \in ChainThreads, RefreshFetch(t) PROVE HopsAreCurrent'
  <2>0. PICK o \in ChainOwners : o = pending[t].owner
    BY <1>11 DEF RefreshFetch, ChainTyped, StoresWhole, At
  <2>1. /\ pending'[t].place \in {"off", "check"} /\ pending[t].place = "fetch"
        /\ \A u \in ChainThreads \ {t} : pending'[u] = pending[u]
    BY <1>11, PlaceSteps DEF ChainStep, At
  <2>2. \A p : Asking(p)' = Asking(p) \ {t} /\ \A u \in Asking(p)' : pending'[u] = pending[u]
    BY <2>1 DEF Asking
  <2>3. /\ UNCHANGED <<asks, chainConfig, relay>>
        /\ cache' = [cache EXCEPT ![o] = pending[t].cfg.source] \/ cache' = cache
        /\ outdated' = IF CachedWithoutRelay(o) THEN outdated \cup {o}
                       ELSE IF Asking(o) = {t} /\ asks[o].place = "off" /\ cache'[o] = chainConfig[o].source
                         THEN outdated \ {o} ELSE outdated
    BY <1>11, <2>0 DEF RefreshFetch, stores
  <2>4. ASSUME NEW p \in ChainOwners \ outdated', p # o PROVE HopIsCurrent(p)'
    <3>1. HopIsCurrent(p) /\ cache'[p] = cache[p]
      BY <2>3, <2>4 DEF HopsAreCurrent, ChainTyped
    <3> QED
      BY <2>2, <2>3, <3>1 DEF HopIsCurrent
  <2>5. ASSUME o \notin outdated' PROVE HopIsCurrent(o)'
    <3>1. t \in Asking(o) /\ cache'[o] \in {pending[t].cfg.source, cache[o]}
      BY <2>0, <2>1, <2>3 DEF Asking, ChainTyped
    <3>2. cache'[o] # 0 => IsChain(relay[o])
      BY <2>3, <2>5 DEF CachedWithoutRelay
    <3>3. CASE Asking(o) = {t} /\ asks[o].place = "off" /\ cache'[o] = chainConfig[o].source
      BY <2>2, <2>3, <3>2, <3>3 DEF HopIsCurrent
    <3>4. CASE HopIsCurrent(o)
      BY <2>2, <2>3, <3>1, <3>2, <3>4 DEF HopIsCurrent
    <3> QED
      BY <2>3, <2>5, <3>3, <3>4 DEF HopsAreCurrent
  <2> QED
    BY <2>4, <2>5 DEF HopsAreCurrent
<1>12. ASSUME NEW t \in ChainThreads, ReadyCheck(t) PROVE HopsAreCurrent'
  <2>1. /\ pending'[t].place \notin {"wait", "fetch"}
        /\ \A u \in ChainThreads \ {t} : pending'[u] = pending[u]
    BY <1>12, PlaceSteps DEF ChainStep
  <2> QED
    BY <1>12, <2>1, HopsKept DEF ReadyCheck, NobodyAsks, stores, histories
<1>13. ASSUME NEW o \in ChainOwners, AskCache(o) PROVE HopsAreCurrent'
  <2>1. UNCHANGED <<cache, relay, chainConfig, pending, outdated>>
    BY <1>13 DEF AskCache, stores, histories
  <2>2. /\ asks'[o].place # "off" => \/ asks'[o].source = chainConfig[o].source
                                     \/ asks[o].place # "off" /\ asks'[o].source = asks[o].source
        /\ \A p \in ChainOwners \ {o} : asks'[p] = asks[p]
    BY <1>13 DEF AskCache, ChainTyped, NoAsk
  <2> QED
    BY <2>1, <2>2 DEF HopsAreCurrent, HopIsCurrent, Asking
<1>14. ASSUME NEW o \in ChainOwners, AskWait(o) PROVE HopsAreCurrent'
  <2>1. UNCHANGED <<cache, relay, chainConfig, pending, outdated>>
    BY <1>14 DEF AskWait, stores, histories
  <2>2. /\ asks'[o].place # "off" => \/ asks'[o].source = chainConfig[o].source
                                     \/ asks[o].place # "off" /\ asks'[o].source = asks[o].source
        /\ \A p \in ChainOwners \ {o} : asks'[p] = asks[p]
    BY <1>14 DEF AskWait, ChainTyped, NoAsk
  <2> QED
    BY <2>1, <2>2 DEF HopsAreCurrent, HopIsCurrent, Asking
<1>15. ASSUME NEW o \in ChainOwners, AskFetch(o) PROVE HopsAreCurrent'
  <2>1. /\ UNCHANGED <<relay, chainConfig, pending>>
        /\ asks[o].place = "fetch" /\ asks' = [asks EXCEPT ![o] = NoAsk]
        /\ cache' = [cache EXCEPT ![o] = asks[o].source] \/ cache' = cache
        /\ outdated' = IF CachedWithoutRelay(o) THEN outdated \cup {o} ELSE outdated
    BY <1>15 DEF AskFetch, stores
  <2>2. \A p \in ChainOwners \ {o} : asks'[p] = asks[p] /\ cache'[p] = cache[p]
    BY <2>1 DEF ChainTyped
  <2>3. asks'[o].place = "off" /\ cache'[o] \in {asks[o].source, cache[o]}
    BY <2>1 DEF ChainTyped, NoAsk
  <2>4. o \notin outdated' => o \notin outdated /\ (cache'[o] # 0 => IsChain(relay[o]))
    BY <2>1 DEF CachedWithoutRelay
  <2>5. \A p \in ChainOwners \ outdated' : HopIsCurrent(p)
    BY <2>1 DEF HopsAreCurrent
  <2>6. o \notin outdated' => HopIsCurrent(o)'
    BY <2>1, <2>3, <2>4, <2>5 DEF HopIsCurrent, Asking
  <2>7. ASSUME NEW p \in ChainOwners \ outdated', p # o PROVE HopIsCurrent(p)'
    BY <2>1, <2>2, <2>5, <2>7 DEF HopIsCurrent, Asking
  <2> QED
    BY <2>6, <2>7 DEF HopsAreCurrent
<1>16. ASSUME NEW o \in ChainOwners, CacheExpires(o) PROVE HopsAreCurrent'
  <2>1. /\ UNCHANGED <<relay, chainConfig, pending, asks>>
        /\ cache' = [cache EXCEPT ![o] = 0]
        /\ outdated' = IF Asking(o) = {} /\ asks[o].place = "off" THEN outdated \ {o} ELSE outdated
    BY <1>16 DEF CacheExpires, stores
  <2>2. cache'[o] = 0 /\ \A p \in ChainOwners \ {o} : cache'[p] = cache[p]
    BY <2>1 DEF ChainTyped
  <2>3. o \notin outdated' => HopIsCurrent(o)'
    BY <2>1, <2>2 DEF HopsAreCurrent, HopIsCurrent, Asking
  <2>4. ASSUME NEW p \in ChainOwners \ outdated', p # o PROVE HopIsCurrent(p)'
    BY <2>1, <2>2, <2>4 DEF HopsAreCurrent, HopIsCurrent, Asking
  <2> QED
    BY <2>3, <2>4 DEF HopsAreCurrent
<1>17. CASE ConsoleRestart
  BY <1>17 DEF ConsoleRestart, Rest, NoAsk, HopsAreCurrent, HopIsCurrent, Asking
<1>18. CASE UNCHANGED chainVars
  BY <1>18, HopsKept DEF chainVars, NobodyAsks, stores, histories
<1> QED
  BY ProxyChainsAssumption, <1>1, <1>2, <1>3, <1>4, <1>5, <1>6, <1>7, <1>8, <1>9, <1>10, <1>11,
     <1>12, <1>13, <1>14, <1>15, <1>16, <1>17, <1>18
     DEF ChainNext, ChainStep

LEMMA ChainInvInit == ChainInit => ChainInv
<1> SUFFICES ASSUME ChainInit PROVE ChainInv
  OBVIOUS
<1>1. PICK port \in RelayPorts :
        chainConfig = [o \in ChainOwners |-> IF o = FirstOwner THEN [source |-> 1, port |-> port] ELSE DirectConfig]
  BY DEF ChainInit
<1>2. \A o \in ChainOwners : chainConfig[o] \in ChainConfigs /\ chainConfig[o].source <= 1
  BY <1>1, ConfigFacts DEF DirectConfig
<1>3. /\ \A t \in ChainThreads : pending[t].place = "off"
      /\ pending \in [ChainThreads -> ThreadEntries]
  BY ConfigFacts DEF ChainInit, Rest, ThreadEntries, ThreadPlaces
<1>4. ChainTyped
  BY <1>1, <1>2, <1>3, ConfigFacts DEF ChainInit, ChainTyped, StoresWhole, At, NoAsk
<1>5. Applying
  BY <1>3, ProxyChainsAssumption DEF ChainInit, Applying, At, NoOwner
<1>6. PortsAreKept
  BY <1>1, <1>3, ProxyChainsAssumption DEF PortsAreKept, PortsAreDistinct, Choosing, At, IsChain,
     DirectConfig, NoPort
<1>7. SourcesAreNew
  BY <1>2, <1>3 DEF ChainInit, SourcesAreNew, Configures, DirectConfig
<1>8. HopsAreCurrent
  BY <1>3 DEF ChainInit, HopsAreCurrent, HopIsCurrent, Asking, NoAsk
<1> QED
  BY <1>4, <1>5, <1>6, <1>7, <1>8 DEF ChainInv

LEMMA ChainInvStep == ChainInv /\ [ChainNext]_chainVars => ChainInv'
BY ChainTypes, ApplyingStep, PortsStep, SourcesStep, HopsStep DEF ChainInv

LEMMA ChainInvariant == ChainSpec => []ChainInv
BY ChainInvInit, ChainInvStep, PTL DEF ChainSpec

LEMMA ChainInvMeans == ChainInv => ChainsAgree
<1> SUFFICES ASSUME ChainInv PROVE ChainsAgree
  OBVIOUS
<1>1. RelaysMatchConfigs
  <2>1. (\A t \in ChainThreads : ~At(t, "lock") /\ ~At(t, "stop") /\ ~At(t, "start")) => applyLock = NoOwner
    BY DEF ChainInv, ChainTyped, Applying, At
  <2> QED
    BY <2>1 DEF ChainInv, Applying, RelaysMatchConfigs
<1>2. PortsAreDistinct /\ SourceIsCurrent
  BY DEF ChainInv, PortsAreKept, HopsAreCurrent, HopIsCurrent, SourceIsCurrent
<1> QED
  BY <1>1, <1>2 DEF ChainsAgree

\* Whatever the order in which threads store configurations of owners and apply
\* them (ProxyChainManager.apply and refresh, set_icloud_owner_proxy), the
\* relays that run are those configured, no two owners share a port, and no
\* second hop of an older source is used.
THEOREM ChainsAreKept == ChainSpec => []ChainsAgree
BY ChainInvMeans, ChainInvariant, PTL

\* Every second hop that is cached, and every source that is asked for one, is
\* of a configuration that was stored at some time.
CachedWereConfigured ==
  \A o \in ChainOwners : cache[o] <= sources /\ asks[o].source <= sources
AskedWereConfigured ==
  \A t \in ChainThreads : pending[t].place \in {"wait", "fetch"} => pending[t].cfg.source <= sources

LEMMA SourcesGrow ==
  ASSUME ChainTyped, [ChainNext]_chainVars
  PROVE  sources \in Nat /\ sources' \in Nat /\ sources <= sources'
<1>1. sources' \in {sources, sources + 1}
  BY DEF ChainNext, ChainStep, BeginChain, BeginDirect, BeginReady, Begins, Prepare, StoreConfig,
     ApplyLock,
         ApplyStop, ApplyStart, RefreshRead, RefreshWait, RefreshFetch, ReadyCheck, AskCache, AskWait,
         AskFetch, CacheExpires, ConsoleRestart, chainVars, stores
<1> QED
  BY <1>1 DEF ChainTyped

LEMMA AskedStep ==
  ASSUME ChainTyped, SourcesAreNew, AskedWereConfigured, [ChainNext]_chainVars
  PROVE  AskedWereConfigured'
<1>0. ASSUME NEW t \in ChainThreads, \A u \in ChainThreads \ {t} : pending'[u] = pending[u],
             pending'[t].place \in {"wait", "fetch"} =>
               pending'[t].cfg.source \in Nat /\ pending'[t].cfg.source <= sources
      PROVE  AskedWereConfigured'
  <2>1. ASSUME NEW u \in ChainThreads \ {t}, pending'[u].place \in {"wait", "fetch"}
        PROVE  pending'[u].cfg.source <= sources'
    <3>1. pending[u].cfg.source \in Nat /\ pending[u].cfg.source <= sources
      BY <1>0, <2>1 DEF ChainTyped, ThreadEntries, Cfgs, AskedWereConfigured
    <3> QED
      BY <1>0, <3>1, SourcesGrow
  <2> QED
    BY <1>0, <2>1, SourcesGrow DEF AskedWereConfigured
<1>1. ASSUME NEW t \in ChainThreads, NEW o \in ChainOwners,
             BeginChain(t, o) \/ BeginDirect(t, o) \/ BeginReady(t, o)
      PROVE  AskedWereConfigured'
  <2>1. \E e : GoesOn(t, e) /\ e.place \notin {"wait", "fetch"}
    <3>1. BeginChain(t, o) => GoesOn(t, [op |-> "chain", place |-> "prepare", owner |-> o,
                                         cfg |-> [source |-> sources + 1, port |-> NoPort]])
      BY ThreadEntrySteps
    <3>2. BeginDirect(t, o) =>
            GoesOn(t, [op |-> "direct", place |-> "store", owner |-> o, cfg |-> DirectConfig])
      BY ThreadEntrySteps
    <3>3. BeginReady(t, o) =>
            GoesOn(t, [op |-> "ready", place |-> "lock", owner |-> o, cfg |-> DirectConfig])
      BY ThreadEntrySteps
    <3> QED
      BY <1>1, <3>1, <3>2, <3>3
  <2> QED
    BY <1>0, <2>1 DEF GoesOn
<1>2. ASSUME NEW t \in ChainThreads,
             \/ Prepare(t) \/ StoreConfig(t) \/ ApplyLock(t) \/ ApplyStop(t) \/ ApplyStart(t)
             \/ RefreshFetch(t) \/ ReadyCheck(t)
      PROVE  AskedWereConfigured'
  <2>1. /\ \A u \in ChainThreads \ {t} : pending'[u] = pending[u]
        /\ pending'[t].place \notin {"wait", "fetch"}
    BY <1>2, PlaceSteps DEF ChainStep
  <2> QED
    BY <1>0, <2>1
<1>3. ASSUME NEW t \in ChainThreads, RefreshRead(t)
      PROVE  AskedWereConfigured'
  <2>1. pending[t].owner \in ChainOwners
    BY <1>3 DEF RefreshRead, ChainTyped, StoresWhole, At
  <2>2. /\ chainConfig[pending[t].owner].source \in Nat
        /\ chainConfig[pending[t].owner].source <= sources
    BY <2>1, ConfigFacts DEF ChainTyped, SourcesAreNew
  <2>3. GoesOn(t, Rest) \/ GoesOn(t, At3(t, "wait", chainConfig[pending[t].owner]))
    BY <1>3, ThreadEntrySteps
  <2> QED
    BY <1>0, <2>2, <2>3 DEF GoesOn, Rest, At3
<1>4. ASSUME NEW t \in ChainThreads, RefreshWait(t)
      PROVE  AskedWereConfigured'
  <2>1. pending[t].cfg.source \in Nat /\ pending[t].cfg.source <= sources
    BY <1>4 DEF RefreshWait, At, ChainTyped, ThreadEntries, Cfgs, AskedWereConfigured
  <2>2. GoesOn(t, At3(t, "fetch", pending[t].cfg))
    BY <1>4, ThreadEntrySteps
  <2> QED
    BY <1>0, <2>1, <2>2 DEF GoesOn, At3
<1>5. ASSUME UNCHANGED pending
      PROVE  AskedWereConfigured'
  <2>1. \A t \in ChainThreads : pending[t].cfg.source \in Nat
    BY DEF ChainTyped, ThreadEntries, Cfgs
  <2> QED
    BY <1>5, <2>1, SourcesGrow DEF AskedWereConfigured
<1>6. ASSUME NEW o \in ChainOwners, AskCache(o) \/ AskWait(o) \/ AskFetch(o) \/ CacheExpires(o)
      PROVE  UNCHANGED pending
  BY <1>6 DEF AskCache, AskWait, AskFetch, CacheExpires
<1>7. CASE ConsoleRestart
  BY <1>7 DEF ConsoleRestart, Rest, AskedWereConfigured
<1>8. CASE UNCHANGED chainVars
  BY <1>5, <1>8 DEF chainVars
<1> QED
  BY ProxyChainsAssumption, <1>1, <1>2, <1>3, <1>4, <1>5, <1>6, <1>7, <1>8 DEF ChainNext, ChainStep

LEMMA CachedStep ==
  ASSUME ChainTyped, SourcesAreNew, AskedWereConfigured, CachedWereConfigured, [ChainNext]_chainVars
  PROVE  CachedWereConfigured'
<1>0. ASSUME \A o \in ChainOwners : cache'[o] \in Nat /\ cache'[o] <= sources,
             \A o \in ChainOwners : asks'[o].source \in Nat /\ asks'[o].source <= sources
      PROVE  CachedWereConfigured'
  BY <1>0, SourcesGrow DEF CachedWereConfigured
<1>1. \A o \in ChainOwners : /\ cache[o] \in Nat /\ cache[o] <= sources
                             /\ asks[o].source \in Nat /\ asks[o].source <= sources
                             /\ chainConfig[o].source \in Nat /\ chainConfig[o].source <= sources
                             /\ 0 <= sources
  BY ConfigFacts DEF ChainTyped, CachedWereConfigured, SourcesAreNew
<1>2. ASSUME UNCHANGED <<cache, asks>>
      PROVE  CachedWereConfigured'
  BY <1>0, <1>1, <1>2
<1>3. ASSUME NEW t \in ChainThreads, NEW o \in ChainOwners,
             BeginChain(t, o) \/ BeginDirect(t, o) \/ BeginReady(t, o)
      PROVE  UNCHANGED <<cache, asks>>
  BY <1>3 DEF BeginChain, BeginDirect, BeginReady
<1>4. ASSUME NEW t \in ChainThreads,
             \/ Prepare(t) \/ StoreConfig(t) \/ ApplyLock(t) \/ ApplyStart(t)
             \/ RefreshRead(t) \/ RefreshWait(t) \/ ReadyCheck(t)
      PROVE  UNCHANGED <<cache, asks>>
  BY <1>4 DEF Prepare, StoreConfig, ApplyLock, ApplyStart, RefreshRead, RefreshWait, ReadyCheck
<1>5. ASSUME NEW t \in ChainThreads, ApplyStop(t)
      PROVE  CachedWereConfigured'
  <2>1. \A o \in ChainOwners : cache'[o] \in {0, cache[o]} /\ asks'[o] = asks[o]
    BY <1>5 DEF ApplyStop
  <2> QED
    BY <1>0, <1>1, <2>1
<1>6. ASSUME NEW t \in ChainThreads, RefreshFetch(t)
      PROVE  CachedWereConfigured'
  <2>1. pending[t].cfg.source \in Nat /\ pending[t].cfg.source <= sources
    BY <1>6 DEF RefreshFetch, At, ChainTyped, ThreadEntries, Cfgs, AskedWereConfigured
  <2>2. \A o \in ChainOwners : cache'[o] \in {pending[t].cfg.source, cache[o]} /\ asks'[o] = asks[o]
    BY <1>6 DEF RefreshFetch, ChainTyped
  <2> QED
    BY <1>0, <1>1, <2>1, <2>2
<1>7. ASSUME NEW o \in ChainOwners, AskCache(o) \/ AskWait(o) \/ AskFetch(o) \/ CacheExpires(o)
      PROVE  CachedWereConfigured'
  <2>1. \A p \in ChainOwners : /\ cache'[p] \in {0, cache[p], asks[p].source}
                               /\ asks'[p].source \in {0, asks[p].source, chainConfig[p].source}
    BY <1>7 DEF AskCache, AskWait, AskFetch, CacheExpires, ChainTyped, NoAsk
  <2> QED
    BY <1>0, <1>1, <2>1
<1>8. CASE ConsoleRestart
  <2>1. \A o \in ChainOwners : cache'[o] = 0 /\ asks'[o].source = 0
    BY <1>8 DEF ConsoleRestart, NoAsk
  <2> QED
    BY <1>0, <1>1, <2>1
<1>9. CASE UNCHANGED chainVars
  BY <1>2, <1>9 DEF chainVars, stores
<1> QED
  BY ProxyChainsAssumption, <1>2, <1>3, <1>4, <1>5, <1>6, <1>7, <1>8, <1>9 DEF ChainNext, ChainStep

ChainsTyped == ChainInv /\ AskedWereConfigured /\ CachedWereConfigured

LEMMA ChainsTypedInit == ChainInit => ChainsTyped
<1> SUFFICES ASSUME ChainInit PROVE ChainsTyped
  OBVIOUS
<1>1. AskedWereConfigured /\ CachedWereConfigured
  BY DEF ChainInit, Rest, NoAsk, AskedWereConfigured, CachedWereConfigured
<1> QED
  BY <1>1, ChainInvInit DEF ChainsTyped

LEMMA ChainsTypedStep == ChainsTyped /\ [ChainNext]_chainVars => ChainsTyped'
BY ChainInvStep, AskedStep, CachedStep DEF ChainsTyped, ChainInv

LEMMA ChainsTypedMeans == ChainsTyped => ChainTypeOK
<1> SUFFICES ASSUME ChainsTyped PROVE ChainTypeOK
  OBVIOUS
<1>1. ASSUME NEW o \in ChainOwners
      PROVE  /\ chainConfig[o].source \in 0..sources /\ relay[o].source \in 0..sources
             /\ (IsChain(chainConfig[o]) <=> chainConfig[o].port \in RelayPorts)
             /\ cache[o] \in 0..sources /\ asks[o].place \in {"off", "read", "fetch"}
  <2>1. chainConfig[o].source \in Nat /\ relay[o].source \in Nat /\ cache[o] \in Nat /\ sources \in Nat
    BY ConfigFacts DEF ChainsTyped, ChainInv, ChainTyped
  <2>2. chainConfig[o].source <= sources /\ relay[o].source <= sources /\ cache[o] <= sources
    BY DEF ChainsTyped, ChainInv, SourcesAreNew, CachedWereConfigured
  <2>3. IsChain(chainConfig[o]) <=> chainConfig[o].port \in RelayPorts
    BY ConfigFacts, ProxyChainsAssumption DEF ChainsTyped, ChainInv, ChainTyped, NoPort
  <2> QED
    BY <2>1, <2>2, <2>3 DEF ChainsTyped, ChainInv, ChainTyped
<1>2. ASSUME NEW t \in ChainThreads
      PROVE  /\ pending[t].op \in {"none", "chain", "direct", "ready"}
             /\ pending[t].place \in {"off", "prepare", "store", "lock", "stop", "start", "read",
                                      "wait", "fetch", "check"}
             /\ (applyLock = t <=> pending[t].place \in {"stop", "start"})
  BY DEF ChainsTyped, ChainInv, ChainTyped, ThreadEntries, ThreadPlaces, Applying
<1> QED
  BY <1>1, <1>2 DEF ChainTypeOK, ChainsTyped, ChainInv, ChainTyped

\* The types of the proxy chains: every source that is stored, used by a relay
\* or cached was configured once, and the thread that holds the apply lock is
\* the one that stops and starts relays.
THEOREM ChainsAreTyped == ChainSpec => []ChainTypeOK
BY ChainsTypedInit, ChainsTypedStep, ChainsTypedMeans, PTL DEF ChainSpec

(***************************************************************************)
(* The networks and identities of a run's accounts.                        *)
(***************************************************************************)
ProxyValues == Proxies \cup {Direct, Unset}

NetTyped ==
  /\ template \in Proxies \cup {Direct} /\ override \in [Children3 -> ProxyValues]
  /\ print \in [Children3 -> Nat] /\ profileOf \in [Children3 -> Nat] /\ pool \subseteq Nat \ {NoProfile}
  /\ nrun \in 1..2 /\ runProxy \in ProxyValues /\ loginsSaved \subseteq Roles
  /\ snapshot \in [Roles -> [proxy : ProxyValues, source : {Unset, "account", "global", "direct"}]]
  /\ inputs \in [Roles -> ProxyValues] /\ prints \in [Roles -> Nat]
  /\ proxiesUsed \in [1..2 -> [Roles -> SUBSET ProxyValues]]
  /\ printsUsed \in [Children3 -> SUBSET Nat]

\* What a runner of the run has passed, from one place to the next.
ProxyPlaces == {"identity", "identity2", "inputs", "resolve", "resolve2", "login", "login2", "returned"}
InputPlaces == {"resolve", "resolve2", "login", "login2", "returned"}

\* The snapshot of a run's proxies is never empty; what it takes from the run,
\* and what an older version used, is the run's proxy.
SnapshotIsWhole ==
  /\ runProxy = Unset => loginsSaved = {} /\ snapshot = NoSnapshot
  /\ npc = "snapshot" => runProxy # Unset /\ loginsSaved = {}
  /\ npc \in ProxyPlaces => snapshot # NoSnapshot
  /\ snapshot # NoSnapshot =>
       \A r \in Roles :
         /\ snapshot[r].proxy # Unset
         /\ snapshot[r].source = "global" \/ FromOlderVersion(r) => snapshot[r].proxy = runProxy

\* Every execution of a run builds the inputs its snapshot holds.
InputsAreFrozen ==
  /\ npc \in InputPlaces => \A r \in Roles : inputs[r] = snapshot[r].proxy
  /\ \A r \in Roles :
       /\ proxiesUsed[nrun][r] \subseteq {snapshot[r].proxy}
       /\ snapshot = NoSnapshot => proxiesUsed[nrun][r] = {}
       /\ nrun = 1 => proxiesUsed[2][r] = {}
       /\ \E p \in ProxyValues : proxiesUsed[1][r] \subseteq {p}

\* What a runner logs in with is what is stored of the account, or what an
\* older version used.
PrintIsReady(r) ==
  /\ prints[r] # NoPrint
  /\ prints[r] = print[Here(r)] \/ (prints[r] = OldPrint /\ FromOlderVersion(r))

PrintsAreStored ==
  /\ npc \in {"resolve2", "login"} => PrintIsReady("current")
  /\ npc \in {"login", "login2"} => PrintIsReady("next")
  /\ \A r \in Roles : prints[r] \in {NoPrint, OldPrint, print[Here(r)]}
  /\ \A a \in Children3 : printsUsed[a] \subseteq {OldPrint, print[a]} \ {NoPrint}

NetInv == NetTyped /\ SnapshotIsWhole /\ InputsAreFrozen /\ PrintsAreStored /\ ProfilesAreExclusive

LEMMA RunAccounts ==
  /\ "current" \in Roles /\ "next" \in Roles /\ \A r \in Roles : r \in {"current", "next"}
  /\ nrun \in 1..2 => \A r \in Roles : Here(r) \in Children3
  /\ nrun \in 1..2 => Here("current") # Here("next")
BY DEF Roles, Here, AccountIn, Children3

\* The empty values of a run that has not begun.
LEMMA EmptyTyped ==
  /\ NoInputs \in [Roles -> ProxyValues] /\ \A r \in Roles : NoInputs[r] = Unset
  /\ NoPrints \in [Roles -> Nat] /\ \A r \in Roles : NoPrints[r] = NoPrint
  /\ NoSnapshot \in [Roles -> [proxy : ProxyValues, source : {Unset, "account", "global", "direct"}]]
  /\ \A r \in Roles : NoSnapshot[r].proxy = Unset /\ NoSnapshot[r].source = Unset
BY DEF NoInputs, NoPrints, NoSnapshot, NoPrint, ProxyValues

LEMMA LowestIsIn ==
  ASSUME NEW S \in SUBSET Nat, S # {}
  PROVE  Lowest(S) \in S
<1>1. PICK n \in S : \A m \in S : ~(<<m, n>> \in OpToRel(<, Nat))
  BY NatLessThanWellFounded, WFMin
<1>2. \A m \in S : n <= m
  <2> TAKE m \in S
  <2>1. ~(m < n)
    BY <1>1 DEF OpToRel
  <2> QED
    BY <2>1
<1> QED
  BY <1>2 DEF Lowest

\* There are more fingerprints than accounts and runners can hold.
LEMMA NewPrintIsNew ==
  ASSUME NetTyped, PrintsAreStored
  PROVE  NewPrint \in Nat \ {NoPrint, OldPrint}
<1> DEFINE used == UNION ({{print[a]} \cup printsUsed[a] : a \in Children3} \cup {{prints[r]} : r \in Roles})
           left == (2..9) \ used
<1>1. used \subseteq {NoPrint, OldPrint, print["a"], print["b"], print["c"]}
  <2>1. \A a \in Children3 : {print[a]} \cup printsUsed[a] \subseteq {OldPrint, print[a]}
    BY DEF PrintsAreStored
  <2>2. \A r \in Roles : prints[r] \in {NoPrint, OldPrint, print[Here(r)]} /\ Here(r) \in Children3
    BY RunAccounts DEF NetTyped, PrintsAreStored
  <2> QED
    BY <2>1, <2>2 DEF Children3
<1>2. left # {}
  <2> HIDE DEF used
  <2> SUFFICES ASSUME left = {} PROVE FALSE
    OBVIOUS
  <2>1. \A n \in 2..9 : n \in {NoPrint, OldPrint, print["a"], print["b"], print["c"]}
    BY <1>1
  <2>2. \A n \in {2, 3, 4, 5} : n \in 2..9 /\ n # NoPrint /\ n # OldPrint
    BY DEF NoPrint, OldPrint
  <2>3. \A n \in {2, 3, 4, 5} : n = print["a"] \/ n = print["b"] \/ n = print["c"]
    BY <2>1, <2>2
  <2> QED
    BY <2>3
<1>3. left \subseteq Nat /\ NewPrint = Lowest(left)
  BY DEF NewPrint
<1> HIDE DEF left
<1>4. Lowest(left) \in left
  BY <1>2, <1>3, LowestIsIn
<1>5. \A n \in left : n \notin {NoPrint, OldPrint}
  BY DEF left, NoPrint, OldPrint
<1> QED
  BY <1>3, <1>4, <1>5

LEMMA NetTypes ==
  ASSUME NetTyped, PrintsAreStored, [NetNext]_netVars
  PROVE  NetTyped'
<1> USE RunAccounts, EmptyTyped DEF NetTyped, settings, identities, frozen, runnerNet, historyNet, NetGone, NetGoto, NetFails
<1>1. CASE EditSettings
  <2>1. template' \in Proxies \cup {Direct}
    BY <1>1 DEF EditSettings
  <2>2. override' \in [Children3 -> ProxyValues]
    BY <1>1, SMTT(30) DEF EditSettings, ProxyValues, Unset
  <2>3. pool' \subseteq Nat \ {NoProfile}
    BY <1>1 DEF EditSettings
  <2>4. UNCHANGED <<identities, frozen, runnerNet, historyNet>>
    BY <1>1 DEF EditSettings
  <2> QED
    BY <2>1, <2>2, <2>3, <2>4
<1>2. CASE ReserveProfile
  <2>1. FreeProfiles \subseteq Nat /\ FreeProfiles # {}
    BY <1>2 DEF ReserveProfile, FreeProfiles
  <2>2. Lowest(FreeProfiles) \in Nat
    BY <2>1, LowestIsIn
  <2> QED
    BY <1>2, <2>2 DEF ReserveProfile
<1>3. CASE NetBegin
  BY <1>3 DEF NetBegin
<1>4. CASE NetFault
  <2>1. inputs' = NoInputs /\ prints' = NoPrints /\ UNCHANGED <<settings, identities, frozen, historyNet>>
    BY <1>4 DEF NetFault
  <2> QED
    BY <2>1
<1>5. CASE NetRetry
  BY <1>5 DEF NetRetry
<1>6. CASE SetRunProxy
  BY <1>6 DEF SetRunProxy, ProxyValues
<1>7. CASE SetSnapshot
  <2>1. \A r \in Roles, own \in ProxyValues :
          Entry(r, own) \in [proxy : ProxyValues, source : {Unset, "account", "global", "direct"}]
    BY DEF Entry, ProxyValues
  <2>2. \A b \in BOOLEAN, r \in Roles : (IF b THEN Unset ELSE override[Here(r)]) \in ProxyValues
    BY DEF ProxyValues
  <2>3. \A b \in BOOLEAN : TakeSnapshot(b) => snapshot' \in [Roles -> [proxy : ProxyValues, source : {Unset, "account", "global", "direct"}]]
    BY <2>1, <2>2 DEF TakeSnapshot
  <2>4. snapshot' \in [Roles -> [proxy : ProxyValues, source : {Unset, "account", "global", "direct"}]]
    BY <1>7, <2>3 DEF SetSnapshot
  <2>5. UNCHANGED <<settings, identities, nrun, runProxy, loginsSaved, inputs, prints, historyNet>>
    BY <1>7 DEF SetSnapshot
  <2> QED
    BY <2>4, <2>5
<1>8. CASE EnsureIdentity
  BY <1>8 DEF EnsureIdentity
<1>9. CASE BuildInputs
  <2>1. inputs' \in [Roles -> ProxyValues]
    <3>1. CASE inputs' = NoInputs
      BY <3>1
    <3>2. CASE inputs' = [r \in Roles |-> IF FromOlderVersion(r) \/ ~Bindable(r) THEN runProxy ELSE snapshot[r].proxy]
      <4>1. \A r \in Roles : snapshot[r].proxy \in ProxyValues
        OBVIOUS
      <4> QED
        BY <3>2, <4>1
    <3> QED
      BY <1>9, <3>1, <3>2 DEF BuildInputs
  <2>2. prints' \in [Roles -> Nat]
    BY <1>9 DEF BuildInputs
  <2>3. UNCHANGED <<settings, identities, frozen, historyNet>>
    BY <1>9 DEF BuildInputs
  <2> QED
    BY <2>1, <2>2, <2>3
<1>10. CASE ResolveNetwork
  <2>1. PICK role \in Roles, a \in Children3 :
          \/ print' = print /\ prints' \in {prints, NoPrints, [prints EXCEPT ![role] = PrintFor(role)]}
          \/ /\ prints' = [prints EXCEPT ![role] = PrintFor(role)]
             /\ print' = [print EXCEPT ![a] = IF @ = NoPrint THEN PrintFor(role) ELSE @]
    BY <1>10 DEF ResolveNetwork
  <2>2. PrintFor(role) \in Nat
    BY NewPrintIsNew DEF PrintFor, OldPrint
  <2>3. print' \in [Children3 -> Nat]
    <3>1. CASE print' = print
      BY <3>1
    <3>2. CASE print' = [print EXCEPT ![a] = IF @ = NoPrint THEN PrintFor(role) ELSE @]
      BY <2>2, <3>2
    <3> QED
      BY <2>1, <3>1, <3>2
  <2>5. prints' \in [Roles -> Nat]
    BY <2>1, <2>2, ZenonT(40)
  <2>4. /\ UNCHANGED <<settings, sid, profileOf, frozen, historyNet>>
        /\ inputs' \in {inputs, NoInputs}
    BY <1>10 DEF ResolveNetwork
  <2> QED
    BY <2>3, <2>4, <2>5
<1>11. CASE NetLogin
  <2>1. PICK role \in Roles, a \in Children3 :
          /\ loginsSaved' = loginsSaved \cup {role}
          /\ proxiesUsed' = [proxiesUsed EXCEPT ![nrun] = [proxiesUsed[nrun] EXCEPT ![role] = @ \cup {inputs[role]}]]
          /\ printsUsed' = [printsUsed EXCEPT ![a] = @ \cup {prints[role]}]
    BY <1>11 DEF NetLogin
  <2>2. printsUsed' \in [Children3 -> SUBSET Nat] /\ loginsSaved' \subseteq Roles
    BY <2>1
  <2> DEFINE perRole == [proxiesUsed[nrun] EXCEPT ![role] = @ \cup {inputs[role]}]
  <2>3. perRole \in [Roles -> SUBSET ProxyValues]
    OBVIOUS
  <2>4. proxiesUsed' = [proxiesUsed EXCEPT ![nrun] = perRole]
    BY <2>1
  <2> HIDE DEF perRole
  <2>5. proxiesUsed' \in [1..2 -> [Roles -> SUBSET ProxyValues]]
    BY <2>3, <2>4
  <2>6. UNCHANGED <<settings, identities, nrun, runProxy, snapshot, inputs, prints>>
    BY <1>11 DEF NetLogin
  <2> QED
    BY <2>2, <2>5, <2>6
<1>12. CASE NetFinish
  <2>1. inputs' = NoInputs /\ prints' = NoPrints /\ UNCHANGED <<settings, identities, historyNet>>
    BY <1>12 DEF NetFinish
  <2>2. nrun' \in 1..2 /\ runProxy' \in ProxyValues /\ loginsSaved' \subseteq Roles
    BY <1>12 DEF NetFinish, ProxyValues
  <2>3. snapshot' \in {snapshot, NoSnapshot}
    BY <1>12 DEF NetFinish
  <2> QED
    BY <2>1, <2>2, <2>3
<1>13. CASE UNCHANGED netVars
  BY <1>13 DEF netVars
<1> QED
  BY <1>1, <1>2, <1>3, <1>4, <1>5, <1>6, <1>7, <1>8, <1>9, <1>10, <1>11, <1>12, <1>13 DEF NetNext

\* Fingerprints that are stored are kept.
StoredPrintsStay == \A a \in Children3 : print[a] # NoPrint => print'[a] = print[a]

LEMMA SnapshotStays ==
  ASSUME NetTyped, SnapshotIsWhole, UNCHANGED frozen, StoredPrintsStay,
         npc' = "snapshot" => npc = "snapshot", npc' \in ProxyPlaces => npc \in ProxyPlaces
  PROVE  SnapshotIsWhole'
<1>1. \A r \in Roles : FromOlderVersion(r)' => FromOlderVersion(r)
  BY RunAccounts DEF FromOlderVersion, StoredPrintsStay, frozen, Here, NetTyped
<1> QED
  BY <1>1 DEF SnapshotIsWhole, frozen

LEMMA EntryIsWhole ==
  ASSUME NetTyped, runProxy # Unset, NEW r \in Roles, NEW own \in ProxyValues
  PROVE  /\ Entry(r, own).proxy # Unset
         /\ own = Unset \/ Entry(r, own).source = "global" => Entry(r, own).proxy = runProxy
BY DEF Entry, Unset, Direct, NetTyped, ProxyValues

LEMMA SnapshotStep ==
  ASSUME NetTyped, SnapshotIsWhole, PrintsAreStored, [NetNext]_netVars
  PROVE  SnapshotIsWhole'
<1> USE DEF NetGone, NetGoto, NetFails, settings, identities, frozen, runnerNet, historyNet, ProxyPlaces
<1>1. CASE EditSettings
  BY <1>1, SnapshotStays DEF StoredPrintsStay, EditSettings
<1>2. CASE ReserveProfile
  BY <1>2, SnapshotStays DEF StoredPrintsStay, ReserveProfile
<1>3. CASE NetBegin
  BY <1>3, SnapshotStays DEF StoredPrintsStay, NetBegin
<1>4. CASE NetFault
  BY <1>4, SnapshotStays DEF StoredPrintsStay, NetFault
<1>5. CASE NetRetry
  BY <1>5, SnapshotStays DEF StoredPrintsStay, NetRetry
<1>6. CASE SetRunProxy
  <2>1. runProxy' # Unset
    BY <1>6, NetworkAssumption DEF SetRunProxy, NetTyped, Unset, Direct
  <2> QED
    BY <1>6, <2>1 DEF SetRunProxy, SnapshotIsWhole
<1>7. CASE SetSnapshot
  <2>1. PICK had \in BOOLEAN : TakeSnapshot(had) /\ runProxy # Unset /\ (had \/ loginsSaved = {})
    BY <1>7 DEF SetSnapshot, SnapshotIsWhole
  <2>2. UNCHANGED <<print, nrun, runProxy, loginsSaved>> /\ npc' = "identity"
    BY <1>7 DEF SetSnapshot
  <2>3. \A r \in Roles : FromOlderVersion(r)' => FromOlderVersion(r)
    BY <2>2 DEF FromOlderVersion, Here
  <2>4. CASE snapshot # NoSnapshot
    BY <2>1, <2>2, <2>3, <2>4 DEF TakeSnapshot, SnapshotIsWhole
  <2>5. CASE snapshot = NoSnapshot
    <3> DEFINE own(r) == IF had THEN Unset ELSE override[Here(r)]
    <3>1. \A r \in Roles : own(r) \in ProxyValues
      BY RunAccounts DEF NetTyped, ProxyValues
    <3>2. snapshot' = [r \in Roles |-> Entry(r, own(r))]
      BY <2>1, <2>5 DEF TakeSnapshot
    <3>3. had => \A r \in Roles : own(r) = Unset
      OBVIOUS
    <3> HIDE DEF own
    <3>4. \A r \in Roles :
            /\ snapshot'[r].proxy # Unset
            /\ own(r) = Unset \/ snapshot'[r].source = "global" => snapshot'[r].proxy = runProxy
      BY <2>1, <3>1, <3>2, EntryIsWhole
    <3>5. snapshot' # NoSnapshot
      <4>1. snapshot'["current"].proxy # Unset /\ NoSnapshot["current"].proxy = Unset
        BY <3>4, RunAccounts, EmptyTyped
      <4> QED
        BY <4>1
    <3>6. \A r \in Roles : FromOlderVersion(r)' => own(r) = Unset
      BY <2>1, <2>3, <3>3 DEF FromOlderVersion
    <3>7. \A r \in Roles : snapshot'[r].source = "global" \/ FromOlderVersion(r)' => snapshot'[r].proxy = runProxy
      BY <3>4, <3>6
    <3>8. \A r \in Roles : snapshot'[r].proxy # Unset
      BY <3>4
    <3> QED
      BY <2>1, <2>2, <3>5, <3>7, <3>8 DEF SnapshotIsWhole
  <2> QED
    BY <2>4, <2>5
<1>8. CASE EnsureIdentity
  BY <1>8, SnapshotStays DEF StoredPrintsStay, EnsureIdentity
<1>9. CASE BuildInputs
  BY <1>9, SnapshotStays DEF StoredPrintsStay, BuildInputs
<1>10. CASE ResolveNetwork
  <2>1. StoredPrintsStay
    BY <1>10 DEF ResolveNetwork, StoredPrintsStay, NetTyped
  <2>2. UNCHANGED frozen /\ npc' # "snapshot" /\ npc \in ProxyPlaces
    BY <1>10 DEF ResolveNetwork
  <2> QED
    BY <2>1, <2>2, SnapshotStays
<1>11. CASE NetLogin
  <2>1. PICK role \in Roles : PrintIsReady(role) /\ loginsSaved' = loginsSaved \cup {role}
    BY <1>11, RunAccounts DEF NetLogin, PrintsAreStored
  <2>2. /\ UNCHANGED <<print, nrun, runProxy, snapshot>>
        /\ npc' \in {"login2", "returned"} /\ npc \in ProxyPlaces
    BY <1>11 DEF NetLogin
  <2>3. \A r \in Roles : FromOlderVersion(r)' => FromOlderVersion(r)
    BY <2>1, <2>2 DEF FromOlderVersion, PrintIsReady, Here
  <2>4. runProxy # Unset
    BY <2>2 DEF SnapshotIsWhole
  <2> QED
    BY <2>2, <2>3, <2>4 DEF SnapshotIsWhole
<1>12. CASE NetFinish
  <2>1. CASE nrun = 1
    BY <1>12, <2>1 DEF NetFinish, SnapshotIsWhole
  <2>2. CASE nrun # 1
    BY <1>12, <2>2, SnapshotStays DEF NetFinish, StoredPrintsStay
  <2> QED
    BY <2>1, <2>2
<1>13. CASE UNCHANGED netVars
  BY <1>13, SnapshotStays DEF StoredPrintsStay, netVars
<1> QED
  BY <1>1, <1>2, <1>3, <1>4, <1>5, <1>6, <1>7, <1>8, <1>9, <1>10, <1>11, <1>12, <1>13 DEF NetNext

LEMMA InputsStay ==
  ASSUME InputsAreFrozen, UNCHANGED <<nrun, snapshot, proxiesUsed>>,
         npc' \in InputPlaces => npc \in InputPlaces /\ inputs' = inputs
  PROVE  InputsAreFrozen'
BY DEF InputsAreFrozen

LEMMA InputsStep ==
  ASSUME NetTyped, SnapshotIsWhole, InputsAreFrozen, [NetNext]_netVars
  PROVE  InputsAreFrozen'
<1> USE DEF NetGone, NetGoto, NetFails, settings, identities, frozen, runnerNet, historyNet, InputPlaces
<1>1. CASE EditSettings
  BY <1>1, InputsStay DEF EditSettings
<1>2. CASE ReserveProfile
  BY <1>2, InputsStay DEF ReserveProfile
<1>3. CASE NetBegin
  BY <1>3, InputsStay DEF NetBegin
<1>4. CASE NetFault
  BY <1>4, InputsStay DEF NetFault
<1>5. CASE NetRetry
  BY <1>5, InputsStay DEF NetRetry
<1>6. CASE SetRunProxy
  BY <1>6, InputsStay DEF SetRunProxy
<1>7. CASE SetSnapshot
  <2>1. UNCHANGED <<nrun, proxiesUsed>> /\ npc' = "identity"
    BY <1>7 DEF SetSnapshot
  <2>2. snapshot' = snapshot \/ snapshot = NoSnapshot
    BY <1>7 DEF SetSnapshot, TakeSnapshot
  <2>3. CASE snapshot' = snapshot
    BY <2>1, <2>3, InputsStay
  <2>4. CASE snapshot = NoSnapshot
    BY <2>1, <2>4 DEF InputsAreFrozen
  <2> QED
    BY <2>2, <2>3, <2>4
<1>8. CASE EnsureIdentity
  BY <1>8, InputsStay DEF EnsureIdentity
<1>9. CASE BuildInputs
  <2>1. npc = "inputs" /\ UNCHANGED <<nrun, snapshot, proxiesUsed>>
    BY <1>9 DEF BuildInputs
  <2>2. CASE npc' = "off"
    BY <2>1, <2>2, InputsStay
  <2>3. CASE npc' = "resolve"
    <3>1. inputs' = [r \in Roles |-> IF FromOlderVersion(r) \/ ~Bindable(r) THEN runProxy ELSE snapshot[r].proxy]
      BY <1>9, <2>3 DEF BuildInputs
    <3>2. \A r \in Roles : FromOlderVersion(r) \/ ~Bindable(r) => snapshot[r].proxy = runProxy
      BY <2>1 DEF SnapshotIsWhole, ProxyPlaces, Bindable
    <3>3. \A r \in Roles : inputs'[r] = snapshot[r].proxy
      BY <3>1, <3>2
    <3> QED
      BY <2>1, <3>3 DEF InputsAreFrozen
  <2> QED
    BY <1>9, <2>2, <2>3 DEF BuildInputs
<1>10. CASE ResolveNetwork
  BY <1>10, InputsStay DEF ResolveNetwork
<1>11. CASE NetLogin
  <2>1. PICK role \in Roles : proxiesUsed' = [proxiesUsed EXCEPT ![nrun] = [proxiesUsed[nrun] EXCEPT ![role] = @ \cup {inputs[role]}]]
    BY <1>11, RunAccounts DEF NetLogin
  <2>2. /\ UNCHANGED <<nrun, snapshot, inputs>>
        /\ npc \in {"login", "login2"}
    BY <1>11 DEF NetLogin
  <2>3. snapshot # NoSnapshot /\ inputs[role] = snapshot[role].proxy
    BY <2>2 DEF SnapshotIsWhole, ProxyPlaces, InputsAreFrozen
  <2> DEFINE perRole == [proxiesUsed[nrun] EXCEPT ![role] = @ \cup {inputs[role]}]
  <2>10. proxiesUsed' = [proxiesUsed EXCEPT ![nrun] = perRole]
    BY <2>1
  <2>5. \A r \in Roles : perRole[r] \subseteq {snapshot[r].proxy} /\ snapshot[r].proxy \in ProxyValues
    BY <2>3 DEF NetTyped, InputsAreFrozen
  <2> HIDE DEF perRole
  <2>4. proxiesUsed'[nrun] = perRole /\ \A k \in 1..2 : k # nrun => proxiesUsed'[k] = proxiesUsed[k]
    BY <2>10 DEF NetTyped
  <2>6. \A r \in Roles : proxiesUsed'[nrun][r] \subseteq {snapshot[r].proxy}
    BY <2>4, <2>5
  <2>7. nrun = 1 => \A r \in Roles : proxiesUsed'[2][r] = {}
    BY <2>4 DEF InputsAreFrozen
  <2>8. \A r \in Roles : \E p \in ProxyValues : proxiesUsed'[1][r] \subseteq {p}
    <3>1. CASE nrun = 1
      BY <2>5, <2>6, <3>1
    <3>2. CASE nrun # 1
      BY <2>4, <3>2 DEF InputsAreFrozen
    <3> QED
      BY <3>1, <3>2
  <2>9. npc' \in InputPlaces => \A r \in Roles : inputs'[r] = snapshot'[r].proxy
    BY <2>2 DEF InputsAreFrozen
  <2> QED
    BY <2>2, <2>3, <2>6, <2>7, <2>8, <2>9 DEF InputsAreFrozen
<1>12. CASE NetFinish
  <2>1. UNCHANGED proxiesUsed /\ npc' = "off"
    BY <1>12 DEF NetFinish
  <2>2. CASE nrun = 1
    <3>1. nrun' = 2 /\ snapshot' = NoSnapshot
      BY <1>12, <2>2 DEF NetFinish
    <3> QED
      BY <2>1, <2>2, <3>1 DEF InputsAreFrozen
  <2>3. CASE nrun # 1
    BY <1>12, <2>3, InputsStay DEF NetFinish
  <2> QED
    BY <2>2, <2>3
<1>13. CASE UNCHANGED netVars
  BY <1>13, InputsStay DEF netVars
<1> QED
  BY <1>1, <1>2, <1>3, <1>4, <1>5, <1>6, <1>7, <1>8, <1>9, <1>10, <1>11, <1>12, <1>13 DEF NetNext

LEMMA PrintsStay ==
  ASSUME NetTyped, PrintsAreStored, UNCHANGED <<nrun, print, loginsSaved, printsUsed>>,
         prints' \in {prints, NoPrints},
         npc' \in {"resolve2", "login", "login2"} => npc' = npc /\ prints' = prints
  PROVE  PrintsAreStored'
<1>1. prints' = prints => \A r \in Roles : PrintIsReady(r) => PrintIsReady(r)'
  BY DEF PrintIsReady, FromOlderVersion, Here
<1>2. \A r \in Roles : Here(r)' = Here(r)
  BY DEF Here
<1>3. \A r \in Roles : prints'[r] \in {NoPrint, OldPrint, print'[Here(r)']}
  BY <1>2, EmptyTyped DEF PrintsAreStored
<1>4. npc' \in {"resolve2", "login"} => PrintIsReady("current")'
  BY <1>1, RunAccounts DEF PrintsAreStored
<1>5. npc' \in {"login", "login2"} => PrintIsReady("next")'
  BY <1>1, RunAccounts DEF PrintsAreStored
<1>6. \A a \in Children3 : printsUsed'[a] \subseteq {OldPrint, print'[a]} \ {NoPrint}
  BY DEF PrintsAreStored
<1> QED
  BY <1>3, <1>4, <1>5, <1>6 DEF PrintsAreStored

LEMMA PrintsStep ==
  ASSUME NetTyped, PrintsAreStored, [NetNext]_netVars
  PROVE  PrintsAreStored'
<1> USE DEF NetGone, NetGoto, NetFails, settings, identities, frozen, runnerNet, historyNet
<1>1. CASE EditSettings
  BY <1>1, PrintsStay DEF EditSettings
<1>2. CASE ReserveProfile
  BY <1>2, PrintsStay DEF ReserveProfile
<1>3. CASE NetBegin
  BY <1>3, PrintsStay DEF NetBegin
<1>4. CASE NetFault
  BY <1>4, PrintsStay DEF NetFault
<1>5. CASE NetRetry
  BY <1>5, PrintsStay DEF NetRetry
<1>6. CASE SetRunProxy
  BY <1>6, PrintsStay DEF SetRunProxy
<1>7. CASE SetSnapshot
  BY <1>7, PrintsStay DEF SetSnapshot
<1>8. CASE EnsureIdentity
  BY <1>8, PrintsStay DEF EnsureIdentity
<1>9. CASE BuildInputs
  BY <1>9, PrintsStay DEF BuildInputs
<1>10. CASE ResolveNetwork
  <2>1. CASE npc' = "off"
    BY <1>10, <2>1, PrintsStay DEF ResolveNetwork
  <2>2. CASE npc' # "off"
    <3>1. PICK role \in Roles :
            /\ \/ npc = "resolve" /\ role = "current" /\ npc' = "resolve2"
               \/ npc = "resolve2" /\ role = "next" /\ npc' = "login"
            /\ prints' = [prints EXCEPT ![role] = PrintFor(role)]
            /\ IF FromOlderVersion(role) THEN print' = print
               ELSE print' = [print EXCEPT ![Here(role)] = IF @ = NoPrint THEN PrintFor(role) ELSE @]
      BY <1>10, <2>2, RunAccounts DEF ResolveNetwork
    <3>2. UNCHANGED <<nrun, loginsSaved, printsUsed>>
      BY <1>10, <2>2 DEF ResolveNetwork
    <3>3. /\ Here(role) \in Children3 /\ \A r \in Roles : Here(r)' = Here(r) /\ Here(r) \in Children3
          /\ \A r \in Roles : r # role => Here(r) # Here(role)
      BY <3>2, RunAccounts DEF Here, NetTyped
    <3>4. PrintFor(role) \in Nat \ {NoPrint}
      BY <3>3, NewPrintIsNew DEF PrintFor, OldPrint, NoPrint, NetTyped
    <3>5. /\ prints'[role] = PrintFor(role)
          /\ \A r \in Roles : r # role => prints'[r] = prints[r] /\ print'[Here(r)] = print[Here(r)]
          /\ \A a \in Children3 : print[a] # NoPrint => print'[a] = print[a]
      BY <3>1, <3>3 DEF NetTyped
    <3>6. \/ FromOlderVersion(role) /\ prints'[role] = OldPrint /\ print' = print
          \/ ~FromOlderVersion(role) /\ prints'[role] = print'[Here(role)]
      <4>1. CASE FromOlderVersion(role)
        BY <3>1, <3>5, <4>1 DEF PrintFor, FromOlderVersion
      <4>2. CASE ~FromOlderVersion(role)
        BY <3>1, <3>3, <3>5, <4>2 DEF PrintFor, NetTyped
      <4> QED
        BY <4>1, <4>2
    <3>7. PrintIsReady(role)'
      BY <3>2, <3>3, <3>4, <3>5, <3>6 DEF PrintIsReady, FromOlderVersion
    <3>8. \A r \in Roles : r # role /\ PrintIsReady(r) => PrintIsReady(r)'
      BY <3>2, <3>3, <3>5 DEF PrintIsReady, FromOlderVersion
    <3>9. \A r \in Roles : prints'[r] \in {NoPrint, OldPrint, print'[Here(r)']}
      BY <3>3, <3>5, <3>6 DEF PrintsAreStored
    <3>10. \A a \in Children3 : printsUsed'[a] \subseteq {OldPrint, print'[a]} \ {NoPrint}
      BY <3>2, <3>5 DEF PrintsAreStored
    <3> QED
      BY <3>1, <3>7, <3>8, <3>9, <3>10, RunAccounts DEF PrintsAreStored
  <2> QED
    BY <2>1, <2>2
<1>11. CASE NetLogin
  <2>1. PICK role \in Roles :
          /\ PrintIsReady(role) /\ loginsSaved' = loginsSaved \cup {role}
          /\ printsUsed' = [printsUsed EXCEPT ![Here(role)] = @ \cup {prints[role]}]
          /\ npc' = "login2" => PrintIsReady("next")
    BY <1>11, RunAccounts DEF NetLogin, PrintsAreStored
  <2>2. UNCHANGED <<print, nrun, prints>> /\ npc' \in {"login2", "returned"}
    BY <1>11 DEF NetLogin
  <2>3. \A r \in Roles : PrintIsReady(r) => PrintIsReady(r)'
    BY <2>1, <2>2 DEF PrintIsReady, FromOlderVersion, Here
  <2>4. \A r \in Roles : prints'[r] \in {NoPrint, OldPrint, print'[Here(r)']}
    BY <2>2 DEF PrintsAreStored, Here
  <2>5. prints[role] \in {OldPrint, print[Here(role)]} \ {NoPrint}
    BY <2>1 DEF PrintIsReady
  <2>6. \A a \in Children3 : printsUsed'[a] \subseteq {OldPrint, print'[a]} \ {NoPrint}
    BY <2>1, <2>2, <2>5 DEF PrintsAreStored, NetTyped
  <2> QED
    BY <2>1, <2>2, <2>3, <2>4, <2>6, RunAccounts DEF PrintsAreStored
<1>12. CASE NetFinish
  <2>1. prints' = NoPrints /\ npc' = "off" /\ UNCHANGED <<print, printsUsed>>
    BY <1>12 DEF NetFinish
  <2> QED
    BY <2>1, EmptyTyped DEF PrintsAreStored
<1>13. CASE UNCHANGED netVars
  BY <1>13, PrintsStay DEF netVars
<1> QED
  BY <1>1, <1>2, <1>3, <1>4, <1>5, <1>6, <1>7, <1>8, <1>9, <1>10, <1>11, <1>12, <1>13 DEF NetNext

\* A profile is bound when it is free, and never unbound.
LEMMA ProfilesStep ==
  ASSUME NetTyped, ProfilesAreExclusive, [NetNext]_netVars
  PROVE  ProfilesAreExclusive'
<1>1. CASE UNCHANGED profileOf
  BY <1>1 DEF ProfilesAreExclusive
<1>2. CASE ReserveProfile
  <2>1. /\ profileOf' = [profileOf EXCEPT ![Here("next")] = Lowest(FreeProfiles)]
        /\ FreeProfiles \subseteq Nat /\ FreeProfiles # {}
    BY <1>2 DEF ReserveProfile, FreeProfiles, NetTyped
  <2>2. Lowest(FreeProfiles) \in FreeProfiles
    BY <2>1, LowestIsIn
  <2>3. Lowest(FreeProfiles) # NoProfile /\ \A a \in Children3 : profileOf[a] # Lowest(FreeProfiles)
    BY <2>2 DEF FreeProfiles, BoundProfiles, NetTyped
  <2> QED
    BY <2>1, <2>3 DEF ProfilesAreExclusive, NetTyped
<1> QED
  BY <1>1, <1>2 DEF NetNext, EditSettings, NetBegin, NetFault, NetRetry, SetRunProxy, SetSnapshot,
     EnsureIdentity, BuildInputs, ResolveNetwork, NetLogin, NetFinish, NetFails, netVars, identities

LEMMA NetInvInit ==
  ASSUME NetInit
  PROVE  NetInv
<1> USE RunAccounts, EmptyTyped DEF NetInit
<1>1. NetTyped
  <2>1. override \in [Children3 -> ProxyValues]
    BY DEF ProxyValues
  <2>2. pool \subseteq Nat \ {NoProfile}
    BY NetworkAssumption DEF NoProfile
  <2>3. runProxy \in ProxyValues /\ loginsSaved \subseteq Roles
    BY DEF ProxyValues
  <2> QED
    BY <2>1, <2>2, <2>3 DEF NetTyped, NoPrint, NoProfile
<1>2. SnapshotIsWhole
  BY NetworkAssumption DEF SnapshotIsWhole, ProxyPlaces, Unset, Direct
<1>3. InputsAreFrozen
  BY DEF InputsAreFrozen, InputPlaces, ProxyValues
<1>4. PrintsAreStored
  BY DEF PrintsAreStored
<1>5. ProfilesAreExclusive
  BY DEF ProfilesAreExclusive
<1> QED
  BY <1>1, <1>2, <1>3, <1>4, <1>5 DEF NetInv

LEMMA NetInvStep ==
  ASSUME NetInv, [NetNext]_netVars
  PROVE  NetInv'
BY NetTypes, SnapshotStep, InputsStep, PrintsStep, ProfilesStep DEF NetInv

LEMMA NetInvMeans ==
  ASSUME NetInv
  PROVE  IdentitiesAreKept
<1>1. ASSUME NEW S, NEW p, S \subseteq {p}
      PROVE  Cardinality(S) <= 1
  <2>1. IsFiniteSet({p}) /\ Cardinality({p}) = 1
    BY FS_Singleton
  <2> QED
    BY <1>1, <2>1, FS_Subset
<1>2. ProxiesStayFrozen
  <2> SUFFICES ASSUME NEW n \in 1..2, NEW r \in Roles
               PROVE  Cardinality(proxiesUsed[n][r]) <= 1
    BY DEF ProxiesStayFrozen
  <2>1. \E p : proxiesUsed[n][r] \subseteq {p}
    <3>1. CASE n = 1
      BY <3>1 DEF NetInv, InputsAreFrozen
    <3>2. CASE n = nrun
      BY <3>2 DEF NetInv, InputsAreFrozen
    <3>3. CASE n = 2 /\ nrun = 1
      BY <3>3 DEF NetInv, InputsAreFrozen
    <3> QED
      <4>1. n \in {1, 2} /\ nrun \in {1, 2}
        BY DEF NetInv, NetTyped
      <4> QED
        BY <3>1, <3>2, <3>3, <4>1
  <2> QED
    BY <1>1, <2>1
<1>3. FingerprintsAreKept
  <2> SUFFICES ASSUME NEW a \in Children3
               PROVE  Cardinality(printsUsed[a] \ {OldPrint}) <= 1
    BY DEF FingerprintsAreKept
  <2>1. printsUsed[a] \ {OldPrint} \subseteq {print[a]}
    BY DEF NetInv, PrintsAreStored
  <2> QED
    BY <1>1, <2>1
<1> QED
  BY <1>2, <1>3 DEF IdentitiesAreKept, NetInv

\* Whatever is edited, interrupted and retried, in every run a role keeps the
\* proxy it first used, an account keeps the fingerprint of its first login,
\* and no profile is bound to two accounts.
THEOREM IdentitiesKept == NetSpec => []IdentitiesAreKept
<1>1. NetInit => NetInv
  BY NetInvInit
<1>2. NetInv /\ [NetNext]_netVars => NetInv'
  BY NetInvStep
<1>3. NetInv => IdentitiesAreKept
  BY NetInvMeans
<1> QED
  BY <1>1, <1>2, <1>3, PTL DEF NetSpec

(***************************************************************************)
(* One relay of a proxy chain.                                             *)
(***************************************************************************)
\* What stop() rests on: an open client is in _active or was just accepted;
\* nobody enters _active once the event is set, so stop() closes them all.
Stopping ==
  /\ \A c \in Clients : clientSock[c] = "open" => c \in active \/ serve = c
  /\ stopping <=> stopAt # "off"
  /\ stopAt # "off" => active \subseteq closing
  /\ stopAt \in {"join", "stopped"} => \A c \in Clients \cap closing : clientSock[c] = "closed"
  /\ stopAt = "stopped" => serve = "over"

\* What a client's thread has opened and said at each of its places.
Serving ==
  \A c \in Clients :
    /\ clientSock[c] \in {"none", "queued"} \/ serve = c => handler[c] = "none"
    /\ clientSock[c] \in {"none", "queued"} => c \notin active /\ serve # c
    /\ handler[c] \in {"none", "request", "endpoint", "first_hop"} => upSock[c] = "none"
    /\ handler[c] \in {"second_hop", "answer", "copy"} => upSock[c] = "open"
    /\ handler[c] \in {"none", "request", "endpoint", "first_hop", "second_hop", "answer"} =>
         answered[c] = "nothing"
    /\ handler[c] = "copy" => answered[c] = "success"
    /\ answered[c] = "failure" => upSock[c] # "open"
    /\ handler[c] = "over" => clientSock[c] = "closed" /\ upSock[c] # "open"

RelayInv == RelayTypeOK /\ Stopping /\ Serving

USE DEF Reaches, Refuse, Accepting, CopyEnds

LEMMA ClientsAreNoPlaces == \A d \in Clients : d # "accept" /\ d # "over"
BY ChainRelayAssumption

LEMMA RelayInitInv == RelayInit => RelayInv
BY ClientsAreNoPlaces DEF RelayInit, RelayInv, RelayTypeOK, Stopping, Serving

LEMMA ServeKeeps ==
  ASSUME RelayInv, NEW c \in Clients, ClientConnects(c) \/ Accept(c) \/ Dispatch(c)
  PROVE  RelayInv'
<1> USE ClientsAreNoPlaces DEF RelayInv, RelayTypeOK
<1>1. CASE ClientConnects(c)
  BY <1>1 DEF ClientConnects, Stopping, Serving
<1>2. CASE Accept(c)
  BY <1>2 DEF Accept, Stopping, Serving
<1>3. CASE Dispatch(c)
  <2>1. RelayTypeOK'
    BY <1>3 DEF Dispatch
  <2>2. CASE ~stopping
    <3>1. active' = active \cup {c} /\ clientSock' = clientSock /\ serve = c /\ serve' = "accept"
      BY <1>3, <2>2 DEF Dispatch
    <3>2. UNCHANGED <<stopping, upSock, answered, stopAt, closing>>
      BY <1>3 DEF Dispatch
    <3>3. handler' = [handler EXCEPT ![c] = "request"] /\ handler[c] = "none"
      BY <1>3, <2>2 DEF Dispatch, Serving
    <3>4. stopAt = "off" /\ clientSock[c] \notin {"none", "queued"}
      BY <2>2, <3>1 DEF Stopping, Serving
    <3>5. Stopping'
      BY <3>1, <3>2, <3>4, <2>2 DEF Stopping
    <3>6. Serving'
      BY <3>1, <3>2, <3>3, <3>4 DEF Serving
    <3> QED
      BY <2>1, <3>5, <3>6
  <2>3. CASE stopping
    BY <1>3, <2>3, <2>1 DEF Dispatch, Stopping, Serving
  <2> QED
    BY <2>2, <2>3
<1> QED
  BY <1>1, <1>2, <1>3

LEMMA HandlerKeeps ==
  ASSUME RelayInv, NEW c \in Clients, HandlerStep(c) \/ PeerCloses(c)
  PROVE  RelayInv'
<1> USE ClientsAreNoPlaces DEF RelayInv, RelayTypeOK
<1>1. CASE RelayReads(c)
  BY <1>1 DEF RelayReads, Stopping, Serving
<1>2. CASE AskSecondHop(c)
  BY <1>2 DEF AskSecondHop, Stopping, Serving
<1>3. CASE ConnectFirstHop(c)
  BY <1>3 DEF ConnectFirstHop, Stopping, Serving
<1>4. CASE ConnectSecondHop(c)
  BY <1>4 DEF ConnectSecondHop, Stopping, Serving
<1>5. CASE RelayAnswers(c)
  BY <1>5 DEF RelayAnswers, Stopping, Serving
<1>6. CASE CopyOver(c) \/ PeerCloses(c)
  BY <1>6 DEF CopyOver, PeerCloses, Stopping, Serving
<1>7. CASE HandlerCloses(c)
  <2>1. RelayTypeOK'
    BY <1>7 DEF HandlerCloses
  <2>2. Stopping'
    BY <1>7 DEF HandlerCloses, Stopping
  <2>3. Serving'
    BY <1>7 DEF HandlerCloses, Serving
  <2> QED
    BY <2>1, <2>2, <2>3
<1> QED
  BY <1>1, <1>2, <1>3, <1>4, <1>5, <1>6, <1>7 DEF HandlerStep

LEMMA StopKeeps ==
  ASSUME RelayInv, ServeEnds \/ StopBegin \/ StopSteps
  PROVE  RelayInv'
<1> USE ClientsAreNoPlaces DEF RelayInv, RelayTypeOK
<1>1. CASE ServeEnds
  BY <1>1 DEF ServeEnds, Stopping, Serving
<1>2. CASE StopBegin
  BY <1>2 DEF StopBegin, Stopping, Serving
<1>3. CASE StopServer
  BY <1>3 DEF StopServer, Stopping, Serving
<1>4. CASE StopClients
  BY <1>4 DEF StopClients, Stopping, Serving
<1>5. CASE StopJoin
  BY <1>5 DEF StopJoin, Stopping, Serving
<1> QED
  BY <1>1, <1>2, <1>3, <1>4, <1>5 DEF StopSteps

LEMMA RelayNextInv == RelayInv /\ [RelayNext]_relayVars => RelayInv'
<1> SUFFICES ASSUME RelayInv, [RelayNext]_relayVars
             PROVE  RelayInv'
  OBVIOUS
<1>1. ASSUME NEW c \in Clients,
             ClientConnects(c) \/ Accept(c) \/ Dispatch(c) \/ HandlerStep(c) \/ PeerCloses(c)
      PROVE  RelayInv'
  BY <1>1, ServeKeeps, HandlerKeeps
<1>2. CASE ServeEnds \/ StopBegin \/ StopSteps
  BY <1>2, StopKeeps
<1>3. CASE UNCHANGED relayVars
  BY <1>3 DEF relayVars, RelayInv, RelayTypeOK, Stopping, Serving
<1> QED
  BY <1>1, <1>2, <1>3 DEF RelayNext

LEMMA RelayStopMeans == RelayInv => StoppedHasNoClients
BY ClientsAreNoPlaces DEF RelayInv, Stopping, StoppedHasNoClients

\* When stop() has returned, no client is connected any more: neither one that
\* was being accepted meanwhile, nor one whose thread is still at work.
THEOREM StoppedRelay == RelaySpec => []StoppedHasNoClients
BY RelayStopMeans, RelayInitInv, RelayNextInv, PTL DEF RelaySpec

LEMMA RelaySocketMeans == RelayInv => NoSocketIsLeft
BY DEF RelayInv, RelayTypeOK, Serving, NoSocketIsLeft

\* A client is told of success only with both hops connected, and of failure
\* only without any; a thread that is over has closed both its sockets.
THEOREM NoSocketLeft == RelaySpec => []NoSocketIsLeft
BY RelaySocketMeans, RelayInitInv, RelayNextInv, PTL DEF RelaySpec
=============================================================================
