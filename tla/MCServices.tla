---------------------------- MODULE MCServices -----------------------------
(* The services around the workflows, for TLC: the networks and identities   *)
(* of a run, the capture of a mailbox's session, the proxy chains and one    *)
(* relay of theirs, and the login of an account. The models share no state,  *)
(* so a behaviour takes one of them: the part is chosen at the start and the *)
(* others stay as they are.                                                  *)
EXTENDS RunNetwork, HmeCapture, ProxyChains, ChainRelay, Login

VARIABLE part

servicesVars == <<part, netVars, captureVars, chainVars, relayVars, loginVars>>

\* The choices of a part that does not act are made for it.
ServicesInit ==
  /\ part \in {"network", "capture", "chains", "relay", "login"}
  /\ NetInit /\ CaptureInit /\ ChainInit /\ RelayInit /\ LoginInit
  /\ part # "network" => template = Direct /\ override["b"] = Unset /\ runProxy = Unset
  /\ override["a"] = Unset /\ override["c"] = Unset
  /\ chainConfig[FirstOwner].port = 1
  /\ part # "login" => entry = "http" /\ provider = "icloud"
-----------------------------------------------------------------------------
OnlyNetwork == UNCHANGED <<part, captureVars, chainVars, relayVars, loginVars>>
OnlyCapture == UNCHANGED <<part, netVars, chainVars, relayVars, loginVars>>
OnlyChains  == UNCHANGED <<part, netVars, captureVars, relayVars, loginVars>>
OnlyRelay   == UNCHANGED <<part, netVars, captureVars, chainVars, loginVars>>
OnlyLogin   == UNCHANGED <<part, netVars, captureVars, chainVars, relayVars>>

ServicesNext ==
  \/ part = "network" /\ NetNext /\ OnlyNetwork
  \/ part = "capture" /\ CaptureNext /\ OnlyCapture
  \/ part = "chains" /\ ChainNext /\ OnlyChains
  \/ part = "relay" /\ RelayNext /\ OnlyRelay
  \/ part = "login" /\ LoginNext /\ OnlyLogin

\* The fairness of the parts, actions of different parts together: only one
\* part ever acts, so each of them is treated fairly.
ServicesFairness ==
  /\ WF_servicesVars(\/ part = "login" /\ LoginSteps /\ OnlyLogin
                     \/ part = "relay" /\ StopSteps /\ OnlyRelay
                     \/ part = "capture" /\ CaptureEndsItself(1) /\ OnlyCapture)
  /\ WF_servicesVars(\/ part = "relay" /\ ServeEnds /\ OnlyRelay
                     \/ part = "capture" /\ CaptureEndsItself(2) /\ OnlyCapture)
  /\ \A c \in Clients :
       /\ WF_servicesVars(part = "relay" /\ HandlerStep(c) /\ OnlyRelay)
       /\ WF_servicesVars(part = "relay" /\ Dispatch(c) /\ OnlyRelay)

ServicesSpec == ServicesInit /\ [][ServicesNext]_servicesVars /\ ServicesFairness
-----------------------------------------------------------------------------
\* The types of the parts' states.
ServicesTypeOK == CaptureTypeOK /\ ChainTypeOK /\ RelayTypeOK

\* What was started ends: a capture that was opened, the connections of a
\* relay that is stopped, and a login, however often it starts over.
ServicesEnd == CaptureEnds /\ StopClosesUpstreams /\ LoginEnds
=============================================================================
