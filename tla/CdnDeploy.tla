------------------------------ MODULE CdnDeploy ------------------------------
(***************************************************************************)
(* The deployers of static sites: aws/cdn and aws/s3, gcp/cloudcdn and     *)
(* gcp/gcs.  Each CDN (a CloudFront distribution, a Google url map) is     *)
(* pointed at the directory of the new version; a bucket's deployer also   *)
(* rewrites the env vars file of the site; if anything changed, every CDN  *)
(* is told to drop what it has cached.                                     *)
(*                                                                         *)
(* A CDN's configuration is its version and everything else in it, of      *)
(* which only the number of edits made by others is kept.  The calls that  *)
(* read one CDN each are taken together as one step per CDN.               *)
(***************************************************************************)
EXTENDS DeployCall, Sequences

CONSTANTS
  MaxCdns,   \* the most CDNs that an app has
  MaxEdits   \* bound on the edits by others

ASSUME CdnAssumption == MaxCdns \in Nat

Clouds == {"aws", "gcp"}
AllCdns == 1..MaxCdns

(* What the outputs of the app and its CDNs may look like.  A CDN that is  *)
(* not versioned has no default origin, or no X-Nullstone-Version header   *)
(* with a rewrite: a deploy leaves it alone.                               *)
CdnApps ==
  [kind : {"cdn"}, cloud : Clouds, bucket : BOOLEAN, cdns : 0..MaxCdns,
   envFile : BOOLEAN, versioned : SUBSET AllCdns]

Cdns == 1..app.cdns
Bucket == app.bucket

CdnInit ==
  /\ app \in {a \in CdnApps : a.envFile = a.bucket /\ a.versioned \subseteq 1..a.cdns}
  /\ remote = [conf  |-> [c \in Cdns |-> [version |-> Initially, edits |-> 0]],
               rev   |-> [c \in Cdns |-> 0],          \* the ETag, the fingerprint
               stale |-> [c \in Cdns |-> {}],         \* whose changes the cache may hide
               env   |-> Initially,                   \* NULLSTONE_VERSION in the env vars file
               made  |-> [c \in Cdns |-> 0]]          \* the edits made by others
  /\ DeployInit

(* A bucket without CDNs: there is nothing to deploy, with or without a    *)
(* version.                                                                *)
NoCdns(d) ==
  /\ pc[d] = "start" /\ Bucket /\ Cdns = {}
  /\ Succeeds(d, NoReference)
  /\ UNCHANGED remote

CdnNoVersion(d) ==
  /\ ~(Bucket /\ Cdns = {})
  /\ NoVersionGiven(d)

CdnStarts(d) ==
  /\ At(d, "start") /\ ~(Bucket /\ Cdns = {})
  /\ Goes(d, IF Cdns = {} THEN "update" ELSE "get",
              [next |-> 1, conf |-> <<>>, rev |-> <<>>, changed |-> FALSE, ids |-> <<>>])
  /\ UNCHANGED remote

(* The CDNs are read one after the other.                                  *)
ReadsCdn(d) ==
  LET c == local[d].next
      last == c = app.cdns
  IN
  /\ pc[d] = "get"
  /\ Goes(d, IF last THEN "update" ELSE "get",
              [local[d] EXCEPT !.next = IF last THEN 1 ELSE c + 1,
                               !.conf = Append(@, remote.conf[c]),
                               !.rev = Append(@, remote.rev[c])])
  /\ UNCHANGED remote

GetCdns(d) == app.cloud = "aws" /\ ReadsCdn(d)
GetUrlMaps(d) == app.cloud = "gcp" /\ ReadsCdn(d)

(* Whether the configuration is written back: that of a distribution if    *)
(* the version changes its origin path, a url map even if its rewrites     *)
(* carry the version already.                                              *)
CalcDistributionConfig(conf, v) == conf.version # v
ModifyUrlMap(conf, v) == TRUE

NeedsUpdate(d, c) ==
  /\ c \in app.versioned
  /\ IF app.cloud = "aws" THEN CalcDistributionConfig(local[d].conf[c], version[d])
                           ELSE ModifyUrlMap(local[d].conf[c], version[d])

SkipCdn(d) ==
  LET c == local[d].next IN
  /\ pc[d] = "update" /\ c \in Cdns
  /\ ~NeedsUpdate(d, c)
  /\ Goes(d, "update", [local[d] EXCEPT !.next = c + 1])
  /\ UNCHANGED remote

(* The write is refused when the CDN has changed since it was read: the    *)
(* If-Match of a distribution, the fingerprint of a url map.               *)
WritesCdn(d) ==
  LET c == local[d].next IN
  /\ pc[d] = "update" /\ c \in Cdns
  /\ NeedsUpdate(d, c)
  /\ IF remote.rev[c] # local[d].rev[c]
     THEN GivesUp(d) /\ UNCHANGED remote
     ELSE /\ remote' = [remote EXCEPT !.conf[c] = [local[d].conf[c] EXCEPT !.version = version[d]],
                                      !.rev[c] = @ + 1,
                                      !.stale[c] = @ \cup {d}]
          /\ \/ Goes(d, "update", [local[d] EXCEPT !.next = c + 1, !.changed = TRUE])
             \/ CallFails(d)

UpdateCdnVersion(d) == app.cloud = "aws" /\ WritesCdn(d)
UpdateUrlMapVersion(d) == app.cloud = "gcp" /\ WritesCdn(d)

(* Mutant: the changes of the CDNs are forgotten for those of the file.    *)
UpdatesEndForgetting(d) ==
  /\ pc[d] = "update" /\ local[d].next \notin Cdns
  /\ IF app.envFile /\ remote.env # version[d]
     THEN Goes(d, "putEnv", local[d])
     ELSE Goes(d, "purge", [local[d] EXCEPT !.next = 1, !.changed = @ /\ ~Bucket])
  /\ UNCHANGED remote

(* PostUpdateFn of a bucket with an env vars file reads the file and, if   *)
(* the deploy changes it, writes it back.  A file without the standard     *)
(* vars never changes: it is as good as none.                              *)
UpdatesEnd(d) ==
  /\ pc[d] = "update" /\ local[d].next \notin Cdns
  /\ IF app.envFile /\ remote.env # version[d]
     THEN Goes(d, "putEnv", local[d])
     ELSE Goes(d, "purge", [local[d] EXCEPT !.next = 1])
  /\ UNCHANGED remote

StoresEnv(d) ==
  remote' = [remote EXCEPT !.env = version[d], !.stale = [c \in Cdns |-> @[c] \cup {d}]]

EnvStored(d) == Goes(d, "purge", [local[d] EXCEPT !.next = 1, !.changed = TRUE])

PutEnvVars(d) ==
  /\ pc[d] = "putEnv" /\ app.cloud = "aws"
  /\ StoresEnv(d)
  /\ EnvStored(d) \/ CallFails(d)

(* The Google client reports a failed upload when the writer is closed, by *)
(* a deferred Close whose error is dropped.                                *)
PutEnvVarsObject(d) ==
  /\ pc[d] = "putEnv" /\ app.cloud = "gcp"
  /\ \/ StoresEnv(d) /\ EnvStored(d)
     \/ /\ failures < MaxFailures
        /\ failures' = failures + 1
        /\ pc' = [pc EXCEPT ![d] = "purge"]
        /\ local' = [local EXCEPT ![d].next = 1, ![d].changed = TRUE]
        /\ UNCHANGED <<app, version, result, reference, attempt, remote>>

(* InvalidateCdnPaths, only if there were changes.                         *)
Purging(d) == pc[d] = "purge" /\ local[d].changed /\ local[d].next \in Cdns
InvalidationCreated(d) ==
  Goes(d, "purge", [local[d] EXCEPT !.next = @ + 1, !.ids = Append(@, local[d].next)])

DropsCache(d) ==
  /\ Purging(d)
  /\ remote' = [remote EXCEPT !.stale[local[d].next] = {}]
  /\ InvalidationCreated(d) \/ CallFails(d)

CreateInvalidation(d) == app.cloud = "aws" /\ DropsCache(d)

(* One request id is made for all url maps.  Google performs a request of  *)
(* an id once: behind the first url map it may answer with the operation   *)
(* that there is, or refuse a request that is not the same.                *)
RepeatsRequestId(d) ==
  /\ Purging(d) /\ local[d].next > 1
  /\ InvalidationCreated(d) \/ GivesUp(d)
  /\ UNCHANGED remote

InvalidateCache(d) == app.cloud = "gcp" /\ (DropsCache(d) \/ RepeatsRequestId(d))

(* The first invalidation is the one that is watched.                      *)
Deployed(d) ==
  /\ pc[d] = "purge" /\ (local[d].changed => local[d].next \notin Cdns)
  /\ Succeeds(d, IF local[d].ids = <<>> THEN NoReference ELSE <<"invalidation", Head(local[d].ids)>>)
  /\ UNCHANGED remote

CdnCallFails(d) ==
  /\ \/ pc[d] = "get"
     \/ pc[d] = "update" /\ local[d].next \in Cdns /\ NeedsUpdate(d, local[d].next)
     \/ pc[d] = "update" /\ local[d].next \notin Cdns /\ app.envFile
     \/ pc[d] = "putEnv"
     \/ Purging(d)
  /\ CallFails(d)
  /\ UNCHANGED remote

(* Others edit the configuration of a CDN: a Terraform apply.              *)
OthersEdit(c) ==
  /\ \A e \in Cdns : remote.made[e] < MaxEdits
  /\ remote' = [remote EXCEPT !.conf[c].edits = @ + 1, !.rev[c] = @ + 1, !.made[c] = @ + 1]
  /\ UNCHANGED <<app, version, pc, local, result, reference, attempt, failures>>

CdnStep(d) ==
  \/ NoCdns(d) \/ CdnNoVersion(d) \/ CdnStarts(d) \/ GetCdns(d) \/ GetUrlMaps(d) \/ SkipCdn(d)
  \/ UpdateCdnVersion(d) \/ UpdateUrlMapVersion(d) \/ UpdatesEnd(d) \/ PutEnvVars(d) \/ PutEnvVarsObject(d)
  \/ CreateInvalidation(d) \/ InvalidateCache(d) \/ Deployed(d) \/ CdnCallFails(d)

CdnNext ==
  /\ app.kind = "cdn"
  /\ \/ \E d \in Deploys : CdnStep(d)
     \/ \E c \in Cdns : OthersEdit(c)

IsCdn == app.kind = "cdn"

(* What others change in a CDN's configuration while a deploy is between   *)
(* its read and its write (GetCdns, UpdateDistribution with If-Match) is   *)
(* never overwritten, by any interleaving of deploys.                      *)
EditsKept ==
  IsCdn => \A c \in Cdns : remote.conf[c].edits = remote.made[c]

(* The caches that a purge is sure to reach: every distribution, and the   *)
(* first url map, since the others get its request id again.               *)
SurelyPurged == {c \in Cdns : app.cloud = "aws" \/ c = 1}

(* A Deploy that reports success and returns an invalidation to watch, or  *)
(* was not run before, has dropped from these caches what they held from   *)
(* before its own changes, those of an earlier run that failed half way    *)
(* included (deployer.go:65-80 of aws/cdn, :60-80 of gcp/cloudcdn).  Left  *)
(* out is the success without an invalidation of a run that was repeated:  *)
(* it found all changed by the run that failed, and purges nothing.        *)
CachesDropped ==
  IsCdn => \A d \in Deploys :
    result[d] = "ok" /\ (reference[d] # NoReference \/ attempt[d] = 0)
      => \A c \in SurelyPurged : d \notin remote.stale[c]
=============================================================================
