------------------------------- MODULE RuleBook -------------------------------
(***************************************************************************)
(* The built-in rules (packages/rules/src/checks): which fact of which     *)
(* kind of node a rule judges, the capability the graph must have been     *)
(* collected with, the FSBP control it maps to, and its verdict on a node  *)
(* that does not carry the fact.  Titles, severities, remediation text and *)
(* the NIST mapping are left out.                                          *)
(***************************************************************************)

Rule(kind, fact, requires, control, absent) ==
    [kind |-> kind, fact |-> fact, requires |-> requires, control |-> control, absent |-> absent]

NA == "not-applicable"

GroupRules == {
    Rule("sg", "ssh", "ec2:security-group", "EC2.13", "pass"),
    Rule("sg", "rdp", "ec2:security-group", "EC2.14", "pass"),
    Rule("sg", "highRisk", "ec2:security-group", "EC2.19", "pass"),
    Rule("sg", "unauthorized", "ec2:security-group", "EC2.18", "pass"),
    Rule("subnet", "mapPublicIpOnLaunch", "ec2:subnet", "EC2.15", "pass") }

RdsRules == { Rule("dbInstance", "publiclyAccessible", "rds:db-instance", "RDS.2", "pass") }

IamRules == {
    Rule("account", "rootAccessKeys", "iam:account-summary", "IAM.4", NA),
    Rule("account", "rootMfa", "iam:account-summary", "IAM.9", NA),
    Rule("account", "passwordPolicy", "iam:account-summary", "IAM.7", NA),
    Rule("user", "consoleMfa", "iam:credential-report", "IAM.5", NA),
    Rule("user", "keyRotation", "iam:credential-report", "IAM.3", NA),
    Rule("user", "unused", "iam:credential-report", "IAM.8", NA) }

S3Rules == {
    Rule("account", "s3PublicAccessBlock", "iam:account-summary", "S3.1", NA),
    Rule("bucket", "publicAccessBlock", "s3:bucket", "S3.8", "fail"),
    Rule("bucket", "policyIsPublic", "s3:bucket", "S3.2", NA),
    Rule("bucket", "requireTls", "s3:bucket", "S3.5", NA),
    Rule("bucket", "loggingEnabled", "s3:bucket", "S3.9", NA) }

StorageRules == {
    Rule("volume", "encrypted", "ec2:volume", "EC2.3", "fail"),
    Rule("snapshot", "public", "ec2:snapshot", "EC2.1", "pass"),
    Rule("region", "ebsEncryptionByDefault", "account:region-settings", "EC2.7", NA),
    Rule("vpc", "flowLogsEnabled", "ec2:flow-log", "EC2.6", NA),
    Rule("dbInstance", "storageEncrypted", "rds:encryption", "RDS.3", NA),
    Rule("kmsKey", "rotationEnabled", "kms:key", "KMS.4", NA) }

AuditRules == {
    Rule("account", "multiRegionTrail", "cloudtrail:trail", "CloudTrail.1", NA),
    Rule("trail", "kmsEncrypted", "cloudtrail:trail", "CloudTrail.2", "fail"),
    Rule("trail", "logFileValidation", "cloudtrail:trail", "CloudTrail.4", "fail"),
    Rule("region", "configRecorderEnabled", "account:region-settings", "Config.1", NA),
    Rule("region", "guardDutyEnabled", "account:region-settings", "GuardDuty.1", NA),
    Rule("function", "urlAuthTypes", "lambda:policy", "Lambda.1", NA),
    Rule("secret", "rotationEnabled", "secretsmanager:policy", "SecretsManager.1", NA) }

NetworkBRules == {
    Rule("nacl", "adminPorts", "ec2:network-acl", "EC2.21", NA),
    Rule("sg", "defaultIngress", "ec2:security-group", "EC2.2", "pass"),
    Rule("instance", "imdsv2Required", "ec2:instance", "EC2.8", NA),
    Rule("launchTemplate", "imdsv2Required", "ec2:launch-template", "AutoScaling.3", NA),
    Rule("lb", "httpRedirect", "elbv2:load-balancer", "ELB.1", NA),
    Rule("lb", "accessLogs", "elbv2:load-balancer", "ELB.5", NA) }

ContainerBRules == {
    Rule("service", "assignPublicIp", "ecs:cluster", "ECS.2", "pass"),
    Rule("eks", "endpointPublic", "eks:cluster", "EKS.1", "pass"),
    Rule("eks", "logging", "eks:cluster", "EKS.8", "fail"),
    Rule("queue", "kmsEncrypted", "sqs:queue", "SQS.1", "fail"),
    Rule("topic", "kmsEncrypted", "sns:topic", "SNS.1", "fail"),
    Rule("table", "pitrEnabled", "dynamodb:table", "DynamoDB.2", NA) }

DataBRules == {
    Rule("ecr", "scanOnPush", "ecr:repository", "ECR.1", "fail"),
    Rule("ecr", "tagImmutability", "ecr:repository", "ECR.2", "fail"),
    Rule("ecr", "lifecyclePolicy", "ecr:repository", "ECR.3", "fail"),
    Rule("efs", "encrypted", "efs:file-system", "EFS.1", "fail"),
    Rule("distribution", "viewerProtocolPolicy", "cloudfront:distribution", "CloudFront.3", "pass"),
    Rule("distribution", "loggingEnabled", "cloudfront:distribution", "CloudFront.5", "fail"),
    Rule("restApi", "stageLogging", "apigateway:rest-api", "APIGateway.1", NA),
    Rule("dbSnapshot", "public", "rds:db-snapshot", "RDS.1", "pass"),
    Rule("dbCluster", "storageEncrypted", "rds:db-cluster", "RDS.27", NA) }

Rules == GroupRules \cup RdsRules \cup IamRules \cup S3Rules \cup StorageRules \cup AuditRules
         \cup NetworkBRules \cup ContainerBRules \cup DataBRules

Controls == {r.control : r \in Rules} \cup {"IAM.6", "ECS.8"}

(* A rule's verdict on a node with these attributes.  "exempt" stands for  *)
(* a node outside the rule's scope (an unattached volume, an AWS-managed   *)
(* key, a load balancer that is not an ALB, a user without a password).    *)
Check(rule, attrs) ==
    LET v == IF rule.fact \in DOMAIN attrs THEN attrs[rule.fact] ELSE "unset"
    IN  CASE v = "good"   -> "pass"
          [] v = "bad"    -> "fail"
          [] v = "exempt" -> NA
          [] OTHER        -> rule.absent

===============================================================================
