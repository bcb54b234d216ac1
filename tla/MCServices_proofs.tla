-------------------------- MODULE MCServices_proofs --------------------------
(***************************************************************************)
(* What the runs check of the services, proved of the very specification   *)
(* they check: every step of it is a step of each part or leaves it as it  *)
(* was, so what is proved of a part alone holds of the services together.  *)
(***************************************************************************)
EXTENDS MCServices, Services_proofs

ServicesInv == NetInv /\ CaptureInv /\ ChainsTyped /\ RelayInv /\ LoginInv

\* A step of the services, as each part sees it.
EveryService ==
  /\ [NetNext]_netVars /\ [CaptureNext]_captureVars /\ [ChainNext]_chainVars
  /\ [RelayNext]_relayVars /\ [LoginNext]_loginVars

LEMMA ServicesStep == [ServicesNext]_servicesVars => EveryService
<1>1. CASE NetNext /\ OnlyNetwork
  BY <1>1 DEF OnlyNetwork, EveryService
<1>2. CASE CaptureNext /\ OnlyCapture
  BY <1>2 DEF OnlyCapture, EveryService
<1>3. CASE ChainNext /\ OnlyChains
  BY <1>3 DEF OnlyChains, EveryService
<1>4. CASE RelayNext /\ OnlyRelay
  BY <1>4 DEF OnlyRelay, EveryService
<1>5. CASE LoginNext /\ OnlyLogin
  BY <1>5 DEF OnlyLogin, EveryService
<1>6. CASE UNCHANGED servicesVars
  BY <1>6 DEF servicesVars, EveryService
<1>7. CASE ServicesNext
  BY <1>1, <1>2, <1>3, <1>4, <1>5, <1>7 DEF ServicesNext
<1> QED
  BY <1>6, <1>7

LEMMA ServicesInvInit == ServicesInit => ServicesInv
BY NetInvInit, CaptureInvInit, ChainsTypedInit, RelayInitInv, LoginInvInit
   DEF ServicesInit, ServicesInv

LEMMA ServicesInvStep == ServicesInv /\ [ServicesNext]_servicesVars => ServicesInv'
BY ServicesStep, NetInvStep, CaptureInvStep, ChainsTypedStep, RelayNextInv, LoginInvStep
   DEF ServicesInv, EveryService

LEMMA ServicesAlways == ServicesSpec => []ServicesInv
BY ServicesInvInit, ServicesInvStep, PTL DEF ServicesSpec

\* The state of each service keeps its type, in every behaviour of the
\* services together.
THEOREM ServicesTypes == ServicesSpec => []ServicesTypeOK
<1>1. ServicesInv => ServicesTypeOK
  BY CaptureInvTyped, ChainsTypedMeans
     DEF ServicesInv, ServicesTypeOK, RelayInv
<1> QED
  BY <1>1, ServicesAlways, PTL

\* A run keeps the identities it took, what is shown of a capture is what it
\* stored, relays are those configured, a stopped relay has no clients and
\* leaves no socket, and a login starts over a bounded number of times: of the
\* services together, whichever of them acts.
THEOREM ServicesAreSafe ==
  ServicesSpec => [](/\ IdentitiesAreKept /\ CapturesAgree /\ ChainsAgree
                     /\ StoppedHasNoClients /\ NoSocketIsLeft /\ AttemptsAreBounded)
<1>1. ServicesInv => /\ IdentitiesAreKept /\ CapturesAgree /\ ChainsAgree
                     /\ StoppedHasNoClients /\ NoSocketIsLeft /\ AttemptsAreBounded
  BY NetInvMeans, CaptureInvMeans, ChainInvMeans, RelayStopMeans, RelaySocketMeans, LoginInvMeans
     DEF ServicesInv, ChainsTyped
<1> QED
  BY <1>1, ServicesAlways, PTL

\* No code is submitted twice or missed: in every step of the services together.
THEOREM ServicesLoseNothing == ServicesSpec => LoginCodes
<1>1. ServicesInv /\ [ServicesNext]_servicesVars =>
        /\ [provider = "icloud" /\ ~overwritten /\ Submit => code \notin submitted]_loginVars
        /\ [failure' = "noMail" /\ failure # "noMail"
              => requests \notin Arrived \/ requests \in tried]_loginVars
  BY ServicesStep, SubmitStep, TimeoutStep DEF ServicesInv, EveryService
<1> QED
  BY <1>1, ServicesAlways, PTL
     DEF ServicesSpec, LoginCodes, CodesAreUsedOnce, TimeoutMeansNoMail
=============================================================================
