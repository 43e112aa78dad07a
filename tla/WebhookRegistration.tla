------------------------ MODULE WebhookRegistration ------------------------
(***************************************************************************)
(* How replicas register the validating webhook while they start           *)
(* (internal/bootstrap, internal/ca, internal/webhook/validation).  Every  *)
(* replica reads Istio's CA, signs a certificate of its own with it, and   *)
(* then writes the CA to the one ValidatingWebhookConfiguration they all   *)
(* share.  The API server calls any of them and refuses the user's request *)
(* unless the certificate it is shown is signed by the registered CA       *)
(* (FailurePolicy Fail).                                                   *)
(*                                                                         *)
(* A CA is the number of times it was replaced before.                     *)
(***************************************************************************)
EXTENDS Integers

CONSTANTS
  Replicas,
  MaxReplaced,  \* of the CA
  MaxStarts     \* of processes

ASSUME WebhookAssumption == Replicas # {} /\ MaxReplaced \in Nat /\ MaxStarts \in Nat

VARIABLES
  ca,      \* Istio's CA
  config,  \* the webhook configuration: its resource version, 0 for none, and its CABundle
  proc,    \* of each replica: the step of its start, its CA, the configuration it got
  starts

hookVars == <<ca, config, proc, starts>>

NoConfig == [version |-> 0, ca |-> 0]
Down == [phase |-> "down", ca |-> 0, old |-> NoConfig]

HookInit ==
  /\ ca = 0 /\ config = NoConfig
  /\ proc = [r \in Replicas |-> Down]
  /\ starts = 0

(* Istio's CA is replaced: a process keeps the one it has read.             *)
ReplaceCA ==
  /\ ca < MaxReplaced
  /\ ca' = ca + 1
  /\ UNCHANGED <<config, proc, starts>>

-----------------------------------------------------------------------------
Serve(r) == proc' = [proc EXCEPT ![r] = [phase |-> "serving", ca |-> @.ca, old |-> NoConfig]]

(* A process's certificate is signed by the CA, and its CABundle is the CA, *)
(* of one read (GenerateKeyCertBundle, getIstioCA).                         *)
Signed == [phase |-> "signed", ca |-> ca, old |-> NoConfig]

(* initRootCA, among the first things a process does.                       *)
InitRootCA(r) ==
  /\ proc[r].phase = "down" /\ starts < MaxStarts
  /\ proc' = [proc EXCEPT ![r] = Signed]
  /\ starts' = starts + 1
  /\ UNCHANGED <<ca, config>>

(* GenerateWebhookConfig, and its three calls of the API server.            *)
GetConfig(r) ==
  /\ proc[r].phase = "signed"
  /\ proc' = [proc EXCEPT ![r] = [phase |-> "got", ca |-> @.ca, old |-> config]]
  /\ UNCHANGED <<ca, config, starts>>

\* Mutant of CreateConfig: the creation replaces what is there.
CreateAnyway(r) ==
  /\ proc[r].phase = "got" /\ proc[r].old = NoConfig
  /\ config' = [version |-> 1, ca |-> proc[r].ca]
  /\ Serve(r)
  /\ UNCHANGED <<ca, starts>>

CreateConfig(r) ==
  /\ proc[r].phase = "got" /\ proc[r].old = NoConfig
  /\ config = NoConfig
  /\ config' = [version |-> 1, ca |-> proc[r].ca]
  /\ Serve(r)
  /\ UNCHANGED <<ca, starts>>

\* Mutant of UpdateConfig: an existing configuration is left as it is.
KeepConfig(r) ==
  /\ proc[r].phase = "got" /\ proc[r].old # NoConfig
  /\ Serve(r)
  /\ UNCHANGED <<ca, config, starts>>

(* An update that changes nothing makes no new version.                     *)
UpdateConfig(r) ==
  /\ proc[r].phase = "got" /\ proc[r].old # NoConfig
  /\ config.version = proc[r].old.version
  /\ config' = IF config.ca = proc[r].ca THEN config
               ELSE [version |-> config.version + 1, ca |-> proc[r].ca]
  /\ Serve(r)
  /\ UNCHANGED <<ca, starts>>

(* There is no update when the two configurations are equal.  With the same *)
(* CA they may still differ in the defaults the API server has filled in.   *)
FindEqual(r) ==
  /\ proc[r].phase = "got" /\ proc[r].old # NoConfig
  /\ proc[r].old.ca = proc[r].ca
  /\ Serve(r)
  /\ UNCHANGED <<ca, config, starts>>

(* The process ends: it crashes, or is stopped, or a call of its start has  *)
(* failed (log.Fatalf): the creation of what another replica has created,   *)
(* the update of what another one has updated, or any other.                *)
EndProcess(r) ==
  /\ proc[r].phase # "down"
  /\ proc' = [proc EXCEPT ![r] = Down]
  /\ UNCHANGED <<ca, config, starts>>

HookNext ==
  \/ ReplaceCA
  \/ \E r \in Replicas : \/ InitRootCA(r) \/ GetConfig(r) \/ CreateConfig(r) \/ UpdateConfig(r)
                         \/ FindEqual(r) \/ EndProcess(r)

HookSpec == HookInit /\ [][HookNext]_hookVars

-----------------------------------------------------------------------------
Config == [version : Nat, ca : Nat]

HookTypeOK ==
  /\ ca \in Nat
  /\ config \in Config
  /\ proc \in [Replicas -> [phase : {"down", "signed", "got", "serving"}, ca : Nat, old : Config]]
  /\ starts \in Nat

(* Once every replica serves with a certificate of Istio's present CA, that *)
(* is the CA the configuration has registered and every call of the webhook *)
(* is trusted: no replica that read the CA before it was replaced, and      *)
(* wrote it late, has had the last word.                                    *)
Serves(r) == proc[r].phase = "serving" /\ proc[r].ca = ca
CallsTrusted == (\A r \in Replicas : Serves(r)) => config.version > 0 /\ config.ca = ca

(* What a process has read is past, and it serves only when registered.     *)
ReadsPast ==
  /\ config.version = 0 => config = NoConfig
  /\ \A r \in Replicas :
       /\ proc[r].ca <= ca
       /\ proc[r].old.version <= config.version
       /\ proc[r].old.version = 0 => proc[r].old = NoConfig
       /\ proc[r].old.version = config.version => proc[r].old = config
       /\ proc[r].phase = "serving" => config.version > 0

(* While a CA is registered that is not the present one, some replica has   *)
(* still to start, or to write: it does not serve with the present CA and   *)
(* has not seen that one registered.                                        *)
Content(r) ==
  /\ proc[r].ca = ca
  /\ \/ proc[r].phase = "serving"
     \/ proc[r].phase = "got" /\ proc[r].old # NoConfig /\ proc[r].old.ca = ca
StaleIsRewritten ==
  config.version > 0 /\ config.ca # ca => \E r \in Replicas : ~ Content(r)

HookIInv == HookTypeOK /\ ReadsPast /\ StaleIsRewritten
=============================================================================
