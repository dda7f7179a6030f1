----------------------------- MODULE ArtifactPush -----------------------------
(***************************************************************************)
(* app.Pusher for artifacts in a bucket: Push copies a zip or a directory, *)
(* file by file, to where the key template of the outputs puts a version;  *)
(* Pull copies it back; ListArtifactVersions reads the versions from the   *)
(* keys.  Composer's pusher syncs a directory with the one that its        *)
(* environment reads; Beanstalk's also registers the version.              *)
(*                                                                         *)
(* A "deploy" of DeployCall is here one run of a pusher, in one of three   *)
(* modes.  A key is <<v, f>>: the directory that the template makes of v,  *)
(* and a file in it; its leading "/", where the template has one, is kept  *)
(* in a third place.                                                       *)
(***************************************************************************)
EXTENDS DeployCall

CONSTANT Files   \* the files of source directories

ZipFile == "zip"

(* Whether a pusher copies directories, and what it lists.                 *)
S3ZipPusher     == [dir |-> FALSE, lists |-> "objects"]
S3DirPusher     == [dir |-> TRUE,  lists |-> "root dirs"]
GcsZipPusher    == [dir |-> FALSE, lists |-> "objects"]
GcsDirPusher    == [dir |-> TRUE,  lists |-> "root dirs"]
BlobZipPusher   == [dir |-> FALSE, lists |-> "objects"]
BlobDirPusher   == [dir |-> TRUE,  lists |-> "dirs"]
BeanstalkPusher == S3ZipPusher
ComposerPusher  == [dir |-> TRUE,  lists |-> "nothing"]

Pushers == [s3zip |-> S3ZipPusher, s3dir |-> S3DirPusher, gcszip |-> GcsZipPusher, gcsdir |-> GcsDirPusher,
            blobzip |-> BlobZipPusher, blobdir |-> BlobDirPusher, ebzip |-> BeanstalkPusher,
            dags |-> ComposerPusher]

PusherKinds == DOMAIN Pushers
IsPush == app.kind \in PusherKinds
Pusher == Pushers[app.kind]

(* Of the template: lead, a "/" in front; sep, a "/" behind the version;   *)
(* nested, a directory in front of it.  Of the source: whether there is    *)
(* one and whether it is the working directory.  longer: the versions      *)
(* whose names begin with the name of another.  tree: the readable files   *)
(* of each source.                                                         *)
PushApps ==
  [kind : PusherKinds, lead : BOOLEAN, sep : BOOLEAN, nested : BOOLEAN, source : {"none", "here", "elsewhere"},
   longer : {{}} \cup {{v} : v \in Versions}, mode : [Deploys -> {"push", "pull", "list"}],
   tree : [Deploys -> (SUBSET Files) \ {{}}]]

(* Files that were there before: a directory of DAGs is never empty.       *)
NoOne == "no push"

PushInit ==
  /\ app \in {a \in PushApps :
        /\ \E d \in Deploys : a.mode[d] = "push"
        /\ a.kind = "dags" => ~a.lead /\ ~a.nested /\ a.sep /\ a.longer = {}
        /\ a.nested => a.sep /\ ~a.lead
        /\ a.lead => a.sep /\ a.longer = {}
        /\ a.source # "here" => a.sep /\ ~a.lead /\ ~a.nested /\ a.longer = {}
        /\ \A d \in Deploys : ~Pushers[a.kind].dir \/ a.mode[d] # "push" => a.tree[d] = Files}
  /\ remote = [objs |-> IF app.kind = "dags" THEN [k \in {<<Initially, f, FALSE>> : f \in Files} |-> NoOne] ELSE <<>>,
               versions |-> {},                              \* Beanstalk's application versions
               got |-> [d \in Deploys |-> Nothing]]          \* what Pull or ListArtifactVersions returned
  /\ DeployInit

Keys == DOMAIN remote.objs

(* ArtifactsKey; the DAGs are in one directory whatever the version.       *)
ArtifactsKey(d, f) == <<version[d], f, app.lead>>
Trimmed(key) == <<key[1], key[2], FALSE>>      \* without the leading "/"

S3Key(d, f)      == ArtifactsKey(d, f)
GcsZipKey(d)     == ArtifactsKey(d, ZipFile)
GcsZipReadKey(d) == Trimmed(ArtifactsKey(d, ZipFile))
GcsDirKey(d, f)  == Trimmed(ArtifactsKey(d, f))
BlobKey(d, f)    == Trimmed(ArtifactsKey(d, f))
DagKey(d, f)     == <<Initially, f, FALSE>>

KeyOf(d, f) ==
  CASE app.kind \in {"s3zip", "s3dir", "ebzip"} -> S3Key(d, f)
    [] app.kind = "gcszip" -> GcsZipKey(d)
    [] app.kind = "gcsdir" -> GcsDirKey(d, f)
    [] app.kind \in {"blobzip", "blobdir"} -> BlobKey(d, f)
    [] app.kind = "dags" -> DagKey(d, f)

SourceFiles(d) == IF Pusher.dir THEN app.tree[d] ELSE {ZipFile}

(* Validation: a source and, but for DAGs, a version; WalkDir or os.Open   *)
(* finds the source.                                                       *)
PushRejected(d) ==
  /\ IsPush /\ pc[d] = "start"
  /\ \/ version[d] = NoVersion /\ app.kind # "dags" /\ app.mode[d] # "list"
     \/ app.source = "none" /\ app.mode[d] = "push"
  /\ GivesUp(d)
  /\ UNCHANGED remote

MayStart(d, mode) ==
  /\ IsPush /\ pc[d] = "start" /\ app.mode[d] = mode
  /\ mode = "push" => app.source # "none"
  /\ version[d] # NoVersion \/ app.kind = "dags" \/ mode = "list"

(* Mutant: DAGs are deleted first and uploaded then.                       *)
WalkDirDeletesFirst(d) ==
  /\ MayStart(d, "push")
  /\ IF app.kind = "dags"
     THEN remote' = [remote EXCEPT !.objs = [k \in {} |-> NoOne]]
     ELSE UNCHANGED remote
  /\ Goes(d, "upload", SourceFiles(d))

WalkDir(d) ==
  /\ MayStart(d, "push")
  /\ Goes(d, "upload", SourceFiles(d))
  /\ UNCHANGED remote

Stores(d, f) ==
  /\ remote' = [remote EXCEPT !.objs = [k \in Keys \cup {KeyOf(d, f)} |-> IF k = KeyOf(d, f) THEN d ELSE @[k]]]
  /\ Goes(d, "upload", local[d] \ {f}) \/ CallFails(d)

S3Upload(d, f) ==
  /\ pc[d] = "upload" /\ f \in local[d] /\ app.kind \in {"s3zip", "s3dir", "ebzip"}
  /\ Stores(d, f)

GcsUpload(d, f) ==
  /\ pc[d] = "upload" /\ f \in local[d] /\ app.kind \in {"gcszip", "gcsdir"}
  /\ Stores(d, f)

DagUpload(d, f) ==
  /\ pc[d] = "upload" /\ f \in local[d] /\ app.kind = "dags"
  /\ Stores(d, f)

BlobZipUpload(d, f) ==
  /\ pc[d] = "upload" /\ f \in local[d] /\ app.kind = "blobzip"
  /\ Stores(d, f)

(* The Azure pusher opens the paths that WalkDir gave it, which are        *)
(* relative to the source, relative to the working directory.              *)
BlobDirUpload(d, f) ==
  /\ pc[d] = "upload" /\ f \in local[d] /\ app.kind = "blobdir"
  /\ IF app.source = "here" THEN Stores(d, f) ELSE GivesUp(d) /\ UNCHANGED remote

Uploaded(d) ==
  /\ pc[d] = "upload" /\ local[d] = {}
  /\ CASE app.kind = "dags"  -> Goes(d, "unmatched", Nothing)
       [] app.kind = "ebzip" -> Goes(d, "create", Nothing)
       [] OTHER -> Succeeds(d, NoReference)
  /\ UNCHANGED remote

(* deleteUnmatched lists the directory and deletes what the source lacks;  *)
(* deleting what another push has deleted is an error.                     *)
ListUnmatched(d) ==
  /\ pc[d] = "unmatched"
  /\ Goes(d, "delete", {k \in Keys : k[2] \notin app.tree[d]})
  /\ UNCHANGED remote

DeleteUnmatched(d, k) ==
  /\ pc[d] = "delete" /\ k \in local[d]
  /\ IF k \notin Keys
     THEN GivesUp(d) /\ UNCHANGED remote
     ELSE /\ remote' = [remote EXCEPT !.objs = [j \in Keys \ {k} |-> @[j]]]
          /\ Goes(d, "delete", local[d] \ {k}) \/ CallFails(d)

SyncComplete(d) ==
  /\ pc[d] = "delete" /\ local[d] = {}
  /\ Succeeds(d, NoReference)
  /\ UNCHANGED remote

(* Beanstalk refuses to create a version that exists.                      *)
CreateAppVersion(d) ==
  /\ pc[d] = "create"
  /\ IF version[d] \in remote.versions
     THEN GivesUp(d) /\ UNCHANGED remote
     ELSE /\ remote' = [remote EXCEPT !.versions = @ \cup {version[d]}]
          /\ Succeeds(d, NoReference) \/ CallFails(d)

(* Pull: what it will download, and the pushes of this version that had    *)
(* succeeded before.                                                       *)
Pulls(d, keys) ==
  /\ Goes(d, "download",
          [todo |-> keys, files |-> {},
           after |-> {e \in Deploys : app.mode[e] = "push" /\ result[e] = "ok" /\ version[e] = version[d]}])
  /\ UNCHANGED remote

PullsZip(d, key) ==
  IF key \in Keys THEN Pulls(d, {key}) ELSE GivesUp(d) /\ UNCHANGED remote

DownloadS3Zip(d) == app.kind \in {"s3zip", "ebzip"} /\ MayStart(d, "pull") /\ PullsZip(d, S3Key(d, ZipFile))
DownloadGcsZip(d) == app.kind = "gcszip" /\ MayStart(d, "pull") /\ PullsZip(d, GcsZipReadKey(d))
DownloadBlobZip(d) == app.kind = "blobzip" /\ MayStart(d, "pull") /\ PullsZip(d, BlobKey(d, ZipFile))

(* A directory is listed by the prefix of its keys.  With no "/" behind    *)
(* the version in the template the prefix is also that of the versions     *)
(* whose names begin with this one.                                        *)
BeginsWith(w, v) == w = v \/ (w \in app.longer /\ v \notin app.longer /\ v # NoVersion)

(* Mutant: the prefix never ends in a "/".                                 *)
InPrefixOpen(k, prefix) == k[3] = prefix[3] /\ BeginsWith(k[1], prefix[1])

InPrefix(k, prefix) ==
  /\ k[3] = prefix[3]
  /\ k[1] = prefix[1] \/ (~app.sep /\ BeginsWith(k[1], prefix[1]))

PullsDir(d, prefix) == MayStart(d, "pull") /\ Pulls(d, {k \in Keys : InPrefix(k, prefix)})

DownloadS3Dir(d) == app.kind = "s3dir" /\ PullsDir(d, S3Key(d, ""))
DownloadGcsDir(d) == app.kind = "gcsdir" /\ PullsDir(d, GcsDirKey(d, ""))
DownloadBlobDir(d) == app.kind = "blobdir" /\ PullsDir(d, BlobKey(d, ""))
DownloadDags(d) == app.kind = "dags" /\ PullsDir(d, DagKey(d, ""))

Download(d, k) ==
  /\ pc[d] = "download" /\ k \in local[d].todo
  /\ IF k \in Keys
     THEN Goes(d, "download", [todo |-> local[d].todo \ {k}, after |-> local[d].after,
                               files |-> local[d].files \cup {<<k[1], k[2], remote.objs[k]>>}])
     ELSE GivesUp(d)
  /\ UNCHANGED remote

Pulled(d) ==
  /\ pc[d] = "download" /\ local[d].todo = {}
  /\ remote' = [remote EXCEPT !.got[d] = [files |-> local[d].files, after |-> local[d].after]]
  /\ Succeeds(d, NoReference)

(* ListArtifactVersions: of zips, what the template leaves of every key    *)
(* in the bucket; S3 and Google list only the top directories, which, if   *)
(* the template has a directory in front of the version, are not versions. *)
ListObjects == {k[1] : k \in Keys}
ListDirs == IF app.nested THEN {} ELSE {k[1] : k \in Keys}

ListArtifactVersions(d) ==
  /\ MayStart(d, "list")
  /\ remote' = [remote EXCEPT !.got[d] = [listed |-> CASE Pusher.lists = "nothing" -> {}
                                                       [] Pusher.lists = "root dirs" -> ListDirs
                                                       [] OTHER -> ListObjects]]
  /\ Succeeds(d, NoReference)

PushCallFails(d) ==
  /\ IsPush
  /\ \/ \E mode \in {"push", "pull", "list"} : MayStart(d, mode)
     \/ pc[d] \in {"upload", "delete"} /\ local[d] # {}
     \/ pc[d] \in {"unmatched", "create"}
     \/ pc[d] = "download" /\ local[d].todo # {}
  /\ CallFails(d)
  /\ UNCHANGED remote

PushNext ==
  /\ IsPush
  /\ \E d \in Deploys :
       \/ PushRejected(d) \/ WalkDir(d) \/ Uploaded(d) \/ ListUnmatched(d) \/ SyncComplete(d) \/ CreateAppVersion(d)
       \/ DownloadS3Zip(d) \/ DownloadGcsZip(d) \/ DownloadBlobZip(d) \/ DownloadS3Dir(d) \/ DownloadGcsDir(d)
       \/ DownloadBlobDir(d) \/ DownloadDags(d) \/ Pulled(d) \/ ListArtifactVersions(d) \/ PushCallFails(d)
       \/ \E f \in Files \cup {ZipFile} :
            S3Upload(d, f) \/ GcsUpload(d, f) \/ DagUpload(d, f) \/ BlobZipUpload(d, f) \/ BlobDirUpload(d, f)
       \/ \E k \in Keys : DeleteUnmatched(d, k) \/ Download(d, k)
       \/ \E k \in (IF pc[d] = "delete" THEN local[d] ELSE {}) \ Keys : DeleteUnmatched(d, k)
       \/ \E k \in (IF pc[d] = "download" THEN local[d].todo ELSE {}) \ Keys : Download(d, k)

(* Composer keeps running while its DAGs are pushed: a file that every     *)
(* source has, and that was there, is there at every moment, however       *)
(* pushes interleave or fail ("Upload every local file ... Delete any      *)
(* destination object ... that no longer has a matching local file").      *)
DagsNeverMissing ==
  IsPush /\ app.kind = "dags" =>
    \A f \in Files : (\A d \in Deploys : app.mode[d] = "push" => f \in app.tree[d]) =>
      \E k \in Keys : k[2] = f

(* Pull gives back what Push stored: once the only push of a version has   *)
(* succeeded, a pull of the version that reports success has all of its    *)
(* files, and none of another version.  Left out are the two ways in which *)
(* the code fails this: a template without a "/" behind the version, and a *)
(* Google zip whose key begins with "/".                                   *)
PullReproducesPush ==
  IsPush => \A d \in Deploys :
    app.mode[d] = "pull" /\ result[d] = "ok" /\ app.sep =>
      /\ \A x \in remote.got[d].files : app.kind # "dags" => x[1] = version[d]
      /\ \A e \in remote.got[d].after :
           app.kind # "dags" => \A f \in SourceFiles(e) : \E x \in remote.got[d].files : x[2] = f
=============================================================================
