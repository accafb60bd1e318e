------------------------------ MODULE CloudReads ------------------------------
(***************************************************************************)
(* What the SDK client reads of every kind of resource, and what a fact    *)
(* becomes when the call that reads it does not answer (packages/aws).     *)
(*                                                                         *)
(* A fact is "good" or "bad" in the account, in the sense of the rule that *)
(* judges it.  A call answers "ok", or fails because the thing is not      *)
(* there ("missing"), because the scan role may not read it ("denied"), or *)
(* for any other reason ("error": throttling, a dropped connection).  Each *)
(* collector decides, call by call, whether a failure leaves the fact      *)
(* unset, stands for a value, or rejects the whole pass.                   *)
(*                                                                         *)
(* The policy of a resource is read in the same way.  No rule judges it:   *)
(* it is what the analysis at the end of the pass has to go by, and unset  *)
(* there is nothing to analyse.                                            *)
(***************************************************************************)
EXTENDS Maps

Answers  == {"ok", "missing", "denied", "error"}
Failures == Answers \ {"ok"}

-------------------------------------------------------------------------------
(* The four ways a collector meets a failed read.  "own" says the fact is  *)
(* read by a call of its own; a fact that is not comes with the listing.   *)

WithListing == [own |-> FALSE, missing |-> "throws", denied |-> "throws", error |-> "throws"]
Strict      == [own |-> TRUE,  missing |-> "throws", denied |-> "throws", error |-> "throws"]
\* collectors.ts `optional`: the not-found family only.
Optional(v) == [own |-> TRUE,  missing |-> v, denied |-> "throws", error |-> "throws"]
\* collectors-b.ts `optional`: the not-found family, and AccessDenied with it.
Lenient(v)  == [own |-> TRUE,  missing |-> v, denied |-> v, error |-> "throws"]
\* A try/catch around the call: whatever went wrong.
Caught(v)   == [own |-> TRUE,  missing |-> v, denied |-> v, error |-> v]

NoFacts == << >>

-------------------------------------------------------------------------------
(* client.ts: the base client. *)

VpcReads      == [vpc |-> [flowLogsEnabled |-> Caught("unset")]]
SubnetReads   == [subnet |-> [mapPublicIpOnLaunch |-> WithListing]]
GatewayReads  == [igw |-> NoFacts]
GroupReads    == [sg |-> [ssh |-> WithListing, rdp |-> WithListing, highRisk |-> WithListing,
                          unauthorized |-> WithListing, defaultIngress |-> WithListing]]
InstanceReads == [instance |-> [imdsv2Required |-> WithListing, userData |-> Caught("unset")]]
DbInstanceReads == [dbInstance |-> [publiclyAccessible |-> WithListing, storageEncrypted |-> WithListing]]
\* No policy and no URL configuration ("missing") is a function without a public URL.
FunctionReads == [function |-> [environment |-> WithListing, policy |-> Caught("unset"),
                                urlAuthTypes |-> [Caught("unset") EXCEPT !.missing = "good"]]]
\* ListSecrets says whether a secret rotates; the details replace it when they come.
SecretReads   == [secret |-> [rotationEnabled |-> [Caught("listed") EXCEPT !.missing = "bad"],
                              policy |-> Caught("unset")]]
PrincipalReads == [role |-> NoFacts]

-------------------------------------------------------------------------------
(* collectors.ts: S3, EBS, KMS, audit, account. *)

\* A plausible slip: an unread policy requires TLS.
BucketReadsTrusting == [bucket |-> [publicAccessBlock |-> Optional("unset"), policyIsPublic |-> Optional("unset"),
                                    requireTls |-> Optional("good"), policy |-> [Optional("unset") EXCEPT !.own = FALSE],
                                    loggingEnabled |-> Optional("bad")]]
\* One call reads the policy, and requireTls out of it.
BucketReads == [bucket |-> [publicAccessBlock |-> Optional("unset"), policyIsPublic |-> Optional("unset"),
                            requireTls |-> Optional("bad"), policy |-> [Optional("unset") EXCEPT !.own = FALSE],
                            loggingEnabled |-> Optional("bad")]]
VolumeReads == [volume |-> [encrypted |-> WithListing], snapshot |-> [public |-> Optional("good")]]
KeyReads    == [kmsKey |-> [rotationEnabled |-> Optional("unset"), policy |-> Optional("unset")]]
TrailReads  == [trail |-> [isMultiRegion |-> WithListing, isLogging |-> Optional("bad"),
                           managementEvents |-> Optional("good"), kmsEncrypted |-> WithListing,
                           logFileValidation |-> WithListing]]
RegionReads == [region |-> [ebsEncryptionByDefault |-> Optional("unset"),
                            configRecorderEnabled |-> Optional("unset"),
                            guardDutyEnabled |-> Optional("unset")]]
AccountReads == [account |-> [rootAccessKeys |-> Strict, rootMfa |-> Strict,
                              passwordPolicy |-> Optional("bad"), s3PublicAccessBlock |-> Optional("bad")]]
\* One CSV for every user; a user without a row has none of these.
ReportReads  == [user |-> [consoleMfa |-> WithListing, keyRotation |-> WithListing, unused |-> WithListing]]

-------------------------------------------------------------------------------
(* collectors-b.ts: routing, scaling, load balancing, containers,          *)
(* messaging, data, edge, RDS extras.                                      *)

RoutingReads == [nat |-> NoFacts, routeTable |-> NoFacts, peering |-> NoFacts, endpoint |-> NoFacts,
                 nacl |-> [adminPorts |-> WithListing]]
TemplateReads == [launchTemplate |-> [imdsv2Required |-> Lenient("unset"), userData |-> Lenient("unset")]]
ScalingReads  == [asg |-> NoFacts]
BalancerReads == [lb |-> [httpRedirect |-> Strict, accessLogs |-> Lenient("unset")]]
ContainerReads == [ecsCluster |-> NoFacts, service |-> [assignPublicIp |-> Strict],
                   taskDef |-> [environment |-> Strict],
                   eks |-> [endpointPublic |-> Strict, logging |-> Strict]]
MessagingReads == [queue |-> [kmsEncrypted |-> Strict, policy |-> Strict],
                   topic |-> [kmsEncrypted |-> Strict, policy |-> Strict]]
DataReads == [table |-> [pitrEnabled |-> Lenient("unset")],
              ecr |-> [scanOnPush |-> WithListing, tagImmutability |-> WithListing,
                       lifecyclePolicy |-> Lenient("bad"), policy |-> Lenient("unset")],
              efs |-> [encrypted |-> WithListing, policy |-> Lenient("unset")], ssm |-> NoFacts]
EdgeReads == [distribution |-> [viewerProtocolPolicy |-> Lenient("listed"), loggingEnabled |-> Lenient("bad")],
              restApi |-> [stageLogging |-> Lenient("unset")]]
\* A snapshot whose attributes cannot be read is given none: it is not public.
RdsExtraReads == [dbCluster |-> [storageEncrypted |-> WithListing], dbSnapshot |-> [public |-> Lenient("good")]]

-------------------------------------------------------------------------------
(* Every kind of node discovery reads, and the facts of each. *)
Reads ==
    VpcReads ++ SubnetReads ++ GatewayReads ++ GroupReads ++ InstanceReads ++ DbInstanceReads
    ++ FunctionReads ++ SecretReads ++ PrincipalReads ++ BucketReads ++ VolumeReads ++ KeyReads
    ++ TrailReads ++ RegionReads ++ AccountReads ++ ReportReads ++ RoutingReads ++ TemplateReads
    ++ ScalingReads ++ BalancerReads ++ ContainerReads ++ MessagingReads ++ DataReads ++ EdgeReads
    ++ RdsExtraReads

Kinds == DOMAIN Reads
FactsOf(kind) == DOMAIN Reads[kind]

(* What fails with a read: all that one call reads; and what is read in    *)
(* one try, where a thing that is not there is no failure yet.             *)
OneCall == [bucket |-> {"requireTls", "policy"}]
OneTry  == [function |-> {"urlAuthTypes", "policy"}, secret |-> {"rotationEnabled", "policy"}]
FailsWith(kind, fact, answer) ==
    {fact} \cup (IF kind \in DOMAIN OneCall /\ fact \in OneCall[kind] THEN OneCall[kind] ELSE {})
           \cup (IF kind \in DOMAIN OneTry /\ fact \in OneTry[kind] /\ answer # "missing" THEN OneTry[kind] ELSE {})

(* What the collector puts on the node: the truth when the call answered,  *)
(* else what the tolerance of the fact makes of the failure.               *)
Reading(kind, fact, truth, answer) ==
    LET left == IF answer = "ok" THEN "listed" ELSE Reads[kind][fact][answer]
    IN  IF left = "listed" THEN truth ELSE left

===============================================================================
