------------------------------ MODULE ImagePush ------------------------------
(***************************************************************************)
(* The pushers of images (aws/ecr, gcp/gar, azure/acr).  Push retags the   *)
(* source image on the local Docker host and pushes the new tag; Pull      *)
(* pulls it; ListArtifactVersions reads the tags of the repository page by *)
(* page.  Everything that runs on the host shares its tags.                *)
(***************************************************************************)
EXTENDS DeployCall

(* What tells the three apart: whether the credentials of the outputs are  *)
(* validated before they are used, and how many tokens are exchanged.      *)
EcrPusher == [validates |-> TRUE, exchanges |-> FALSE]
GarPusher == [validates |-> TRUE, exchanges |-> FALSE]
AcrPusher == [validates |-> FALSE, exchanges |-> TRUE]
Registries == [ecr |-> EcrPusher, gar |-> GarPusher, acr |-> AcrPusher]

ImageApps ==
  [kind : DOMAIN Registries, repoOk : BOOLEAN, pusherOk : BOOLEAN, mode : [Deploys -> {"push", "pull", "list"}]]

Earlier == "earlier"     \* an image that was pushed before

(* Of an image one can tell whether there is one.                          *)
ASSUME ImageAssumption == Nothing \notin Deploys

IsImage == app.kind \in DOMAIN Registries

ImageInit ==
  /\ app \in {a \in ImageApps : (\E d \in Deploys : a.mode[d] = "push") /\ (a.repoOk \/ a.pusherOk)}
  /\ \E pushed \in [Versions -> {Nothing, Earlier}] :
       remote = [host |-> [v \in Versions |-> Nothing],     \* whose image the local tag names
                 repo |-> pushed,                            \* and the tag in the repository
                 got |-> [d \in Deploys |-> Nothing]]
  /\ DeployInit

(* validate                                                                *)
Valid(d) ==
  /\ app.repoOk /\ version[d] # NoVersion
  /\ Registries[app.kind].validates => app.pusherOk

ImageRejected(d) ==
  /\ IsImage /\ pc[d] = "start" /\ app.mode[d] # "list" /\ ~Valid(d)
  /\ GivesUp(d)
  /\ UNCHANGED remote

(* The credentials: one call of AWS or Google, and for Azure the chain of  *)
(* two more by which a token of the directory becomes one of the registry. *)
LoginAuth(d) ==
  /\ IsImage /\ pc[d] = "start"
  /\ app.mode[d] = "list" \/ Valid(d)
  /\ Goes(d, CASE Registries[app.kind].exchanges -> "exchange" [] app.mode[d] = "push" -> "tag" [] OTHER -> app.mode[d],
          IF app.mode[d] = "list" THEN [listed |-> {}, before |-> {v \in Versions : remote.repo[v] # Nothing}]
                                  ELSE Nothing)
  /\ UNCHANGED remote

ExchangeForAccessToken(d) ==
  /\ pc[d] = "exchange"
  /\ Goes(d, IF app.mode[d] = "push" THEN "tag" ELSE app.mode[d], local[d])
  /\ UNCHANGED remote

ImageTagged(d) ==
  /\ IsImage /\ pc[d] = "tag"
  /\ remote' = [remote EXCEPT !.host[version[d]] = d]
  /\ Goes(d, "push", Nothing)

(* The tag is pushed, whatever image it names by now.                      *)
PushImage(d) ==
  /\ IsImage /\ pc[d] = "push"
  /\ remote' = [remote EXCEPT !.repo[version[d]] = remote.host[version[d]]]
  /\ Succeeds(d, NoReference) \/ CallFails(d)

PullImage(d) ==
  /\ IsImage /\ pc[d] = "pull"
  /\ IF remote.repo[version[d]] = Nothing
     THEN GivesUp(d) /\ UNCHANGED remote
     ELSE /\ remote' = [remote EXCEPT !.host[version[d]] = remote.repo[version[d]]]
          /\ Succeeds(d, NoReference)

(* Mutant: only the first page is read.                                    *)
TagsPageFirst(d) ==
  LET rest == {v \in Versions : remote.repo[v] # Nothing} \ local[d].listed IN
  /\ IsImage /\ pc[d] = "list"
  /\ \E page \in SUBSET rest :
       /\ rest # {} => page # {}
       /\ remote' = [remote EXCEPT !.got[d] = [listed |-> local[d].listed \cup page, before |-> local[d].before]]
       /\ Succeeds(d, NoReference)

(* One page of tags; the registry says with a Link whether there are more. *)
TagsPage(d) ==
  LET rest == {v \in Versions : remote.repo[v] # Nothing} \ local[d].listed IN
  /\ IsImage /\ pc[d] = "list"
  /\ \E page \in SUBSET rest :
       /\ rest # {} => page # {}
       /\ IF page # rest
          THEN Goes(d, "list", [local[d] EXCEPT !.listed = @ \cup page]) /\ UNCHANGED remote
          ELSE /\ remote' = [remote EXCEPT !.got[d] = [listed |-> local[d].listed \cup page, before |-> local[d].before]]
               /\ Succeeds(d, NoReference)

ImageCallFails(d) ==
  /\ IsImage
  /\ \/ pc[d] = "start" /\ (app.mode[d] = "list" \/ Valid(d))
     \/ pc[d] \in {"exchange", "tag", "push", "pull", "list"}
  /\ CallFails(d)
  /\ UNCHANGED remote

ImageNext ==
  /\ IsImage
  /\ \E d \in Deploys :
       \/ ImageRejected(d) \/ LoginAuth(d) \/ ExchangeForAccessToken(d) \/ ImageTagged(d) \/ PushImage(d)
       \/ PullImage(d) \/ TagsPage(d) \/ ImageCallFails(d)

(* The pages of ListRemoteTags together have every tag that was there when *)
(* the listing began.                                                      *)
TagsListed ==
  IsImage => \A d \in Deploys :
    app.mode[d] = "list" /\ result[d] = "ok" => remote.got[d].before \subseteq remote.got[d].listed
=============================================================================
