------------------------------- MODULE Images -------------------------------
(***************************************************************************)
(* Images and whom they are shared with (internal/handler/image/image.go): *)
(* the tables images, image_users and image_accounts, and what a user is   *)
(* shown.  Sharing looks for a row and then inserts one; making an image   *)
(* public writes a row for the default account and then a flag.  An error  *)
(* of the look is taken for no row.                                        *)
(*                                                                         *)
(* Users and accounts have numbers of their own, and one number may name a *)
(* user and an account.                                                    *)
(***************************************************************************)
EXTENDS Naturals, FiniteSets, FiniteSetsExt

CONSTANTS ImageIds,      \* ids of images, all owned by one user
          ImageUsers,    \* numbers of the users there are
          ImageAccounts, \* numbers of the accounts there are
          DefaultId,     \* model.DefaultAccountID
          ImageOwner,    \* the user who owns the images and looks for whom to share with
          Posts,         \* HTTP requests in progress at one time
          MaxRows        \* bound: shares ever inserted

ASSUME ImagesAssumption ==
    /\ ImageUsers \subseteq Nat /\ ImageAccounts \subseteq Nat
    /\ DefaultId \in ImageAccounts
    /\ ImageOwner \in Nat
    /\ ImageIds # {}
    /\ MaxRows \in Nat

VARIABLES
    picture,  \* the table images: whether the row is there, and IsPublic
    grant,    \* the tables image_users and image_accounts, by id
    post,     \* requests in progress
    doubled   \* history: pairs granted by two requests at one time, or by one
              \* whose look for the share failed

imageVars == <<picture, grant, post, doubled>>

-----------------------------------------------------------------------------
Grantees == ({"user"} \X ImageUsers) \cup ({"account"} \X ImageAccounts)
Everyone == <<"account", DefaultId>>
RowIds == 1..MaxRows

NoGrant == [state |-> "none", img |-> CHOOSE i \in ImageIds : TRUE, to |-> Everyone]
NoPost  == [pc |-> "idle", img |-> NoGrant.img, to |-> Everyone]

ImageInit ==
    /\ picture = [i \in ImageIds |-> [state |-> "none", public |-> FALSE]]
    /\ grant = [n \in RowIds |-> NoGrant]
    /\ post = [p \in Posts |-> NoPost]
    /\ doubled = {}

ImageLive(i)   == picture[i].state = "live"
Grants(i, g)   == {n \in RowIds : grant[n].state = "live" /\ grant[n].img = i /\ grant[n].to = g}
UnusedRows     == {n \in RowIds : grant[n].state = "none"}

\* A request that has looked for this share and found none, and will insert it.
Inserts(p, i, g) == post[p].pc \in {"insert", "publish"} /\ post[p].img = i /\ post[p].to = g

\* A row for i and g, by request p; another request that has looked already and
\* found none will insert a second one.
InsertGrant(p, i, g) ==
    /\ UnusedRows # {}
    /\ grant' = [grant EXCEPT ![Min(UnusedRows)] = [state |-> "live", img |-> i, to |-> g]]
    /\ doubled' = IF \E q \in Posts \ {p} : Inserts(q, i, g)
                  THEN doubled \cup {<<i, g>>} ELSE doubled

-----------------------------------------------------------------------------
(* What a user sees *)

\* A share of an image that was deleted preloads no image and shows none.
getUserSharedImages(u) == {i \in ImageIds : ImageLive(i) /\ Grants(i, <<"user", u>>) # {}}
getAccountSharedImages(a) == {i \in ImageIds : ImageLive(i) /\ Grants(i, <<"account", a>>) # {}}
getPublicImages == getAccountSharedImages(DefaultId)
OldPublicImages == {i \in ImageIds : ImageLive(i) /\ picture[i].public}

\* getImages, for a user u logged in to account a that does not own them; each
\* image is listed once.
getImages(u, a) ==
    OldPublicImages \cup getPublicImages \cup getAccountSharedImages(a) \cup getUserSharedImages(u)

\* AdminListImage heads each image there is as public or private.
AdminListImage ==
    LET public == getPublicImages \cup OldPublicImages
    IN  [public |-> public, private |-> {i \in ImageIds : ImageLive(i)} \ public]

\* GetImageGrantedUserOrAccount, and the two searches for those to share with next.
\* The search for users finds by name, or by nickname those without a share other
\* than the one who searches.
GetImageGrantedUserOrAccount(i) == {g \in Grantees : Grants(i, g) # {}}
UserGetImageUngrantedAccounts(i, mine) ==
    {a \in mine \ {DefaultId} : <<"account", a>> \notin GetImageGrantedUserOrAccount(i)}
UserSearchUngrantedUsers(i, named, nicknamed) ==
    named \cup {u \in nicknamed \ {ImageOwner} : <<"user", u>> \notin GetImageGrantedUserOrAccount(i)}

-----------------------------------------------------------------------------
(* Requests *)

\* UserUploadImage; images of builds come from createImageRecord (Builds).
UserUploadImage(i) ==
    /\ picture[i].state = "none"
    /\ picture' = [picture EXCEPT ![i].state = "live"]
    /\ UNCHANGED <<grant, post, doubled>>

\* DeleteImageByID, deleteImageByIDList: the shares stay.
DeleteImage(i) ==
    /\ ImageLive(i)
    /\ picture' = [picture EXCEPT ![i].state = "deleted"]
    /\ UNCHANGED <<grant, post, doubled>>

\* Mutant: a share that is there already is not looked for.
UserShareImage_Unchecked(p, i, g) ==
    /\ post[p].pc = "idle"
    /\ picture[i].state # "none"
    /\ post' = [post EXCEPT ![p] = [pc |-> "insert", img |-> i, to |-> g]]
    /\ UNCHANGED <<picture, grant, doubled>>

\* The look for a share finds none, or fails, which is taken for none.
NoShareFound(i, g) ==
    doubled' = IF Grants(i, g) = {} THEN doubled ELSE doubled \cup {<<i, g>>}

\* UserShareImage, for one of the list: the grantee exists and no share of his is
\* found.  Nobody looks whether the image is still there.
UserShareImage(p, i, g) ==
    /\ post[p].pc = "idle"
    /\ picture[i].state # "none"
    /\ NoShareFound(i, g)
    /\ post' = [post EXCEPT ![p] = [pc |-> "insert", img |-> i, to |-> g]]
    /\ UNCHANGED <<picture, grant>>

\* createImageUserEntity, createImageAccountEntity
CreateImageShare(p) ==
    /\ post[p].pc = "insert"
    /\ InsertGrant(p, post[p].img, post[p].to)
    /\ post' = [post EXCEPT ![p] = NoPost]
    /\ UNCHANGED picture

\* UserCancelShareImage: the first of the rows.  cancelShareImageWithAccount
\* looks for the account among the users.
UserCancelShareImage(i, g) ==
    /\ g[2] \in ImageUsers
    /\ Grants(i, g) # {}
    /\ grant' = [grant EXCEPT ![Min(Grants(i, g))].state = "deleted"]
    /\ UNCHANGED <<picture, post, doubled>>

\* AdminUpdateImagePublicStatus: public if it was not found to be shared with everyone.
TogglePublic(p, i) ==
    /\ post[p].pc = "idle"
    /\ picture[i].state # "none"
    /\ \E next \in {"publish", "hide"} :
          /\ post' = [post EXCEPT ![p] = [pc |-> next, img |-> i, to |-> Everyone]]
          /\ \/ next = "publish" /\ NoShareFound(i, Everyone)
             \/ next = "hide" /\ Grants(i, Everyone) # {} /\ UNCHANGED doubled
    /\ UNCHANGED <<picture, grant>>

Publish(p) ==
    /\ post[p].pc = "publish"
    /\ InsertGrant(p, post[p].img, Everyone)
    /\ post' = [post EXCEPT ![p].pc = "public"]
    /\ UNCHANGED picture

Hide(p) ==
    /\ post[p].pc = "hide"
    /\ grant' = [n \in RowIds |-> IF n \in Grants(post[p].img, Everyone)
                                  THEN [grant[n] EXCEPT !.state = "deleted"] ELSE grant[n]]
    /\ post' = [post EXCEPT ![p].pc = "private"]
    /\ UNCHANGED <<picture, doubled>>

\* The flag follows; an error is dropped.
SetPublicFlag(p) ==
    /\ post[p].pc \in {"public", "private"}
    /\ \/ picture' = [picture EXCEPT ![post[p].img].public =
                         IF ImageLive(post[p].img) THEN post[p].pc = "public" ELSE @]
       \/ UNCHANGED picture
    /\ post' = [post EXCEPT ![p] = NoPost]
    /\ UNCHANGED <<grant, doubled>>

-----------------------------------------------------------------------------
ImageNext ==
    \/ \E i \in ImageIds : UserUploadImage(i) \/ DeleteImage(i)
    \/ \E i \in ImageIds, g \in Grantees : UserCancelShareImage(i, g)
    \/ \E p \in Posts, i \in ImageIds, g \in Grantees : UserShareImage(p, i, g)
    \/ \E p \in Posts, i \in ImageIds : TogglePublic(p, i)
    \/ \E p \in Posts : CreateImageShare(p) \/ Publish(p) \/ Hide(p) \/ SetPublicFlag(p)

ImageSpec == ImageInit /\ [][ImageNext]_imageVars

-----------------------------------------------------------------------------
(* The inductive invariant behind CancelTakesEffect. *)

ImagesTypeOK ==
    /\ picture \in [ImageIds -> [state : {"none", "live", "deleted"}, public : BOOLEAN]]
    /\ grant \in [RowIds -> [state : {"none", "live", "deleted"}, img : ImageIds, to : Grantees]]
    /\ post \in [Posts -> [pc : {"idle", "insert", "publish", "hide", "public", "private"},
                          img : ImageIds, to : Grantees]]

\* A pair that was not granted twice has one row at most, and none while a
\* request is about to insert it.
GrantedOnce(i, g) ==
    /\ \A n, m \in Grants(i, g) : n = m
    /\ \A p \in Posts : Inserts(p, i, g) => Grants(i, g) = {}

ImagesInv ==
    /\ ImagesTypeOK
    /\ \A p \in Posts : post[p].pc = "publish" => post[p].to = Everyone
    /\ \A i \in ImageIds, g \in Grantees : <<i, g>> \notin doubled => GrantedOnce(i, g)

-----------------------------------------------------------------------------
(* Properties *)

\* Taking back a share takes effect: unless two requests granted the same share
\* at one time, or the look for it once failed, nobody sees the image through it
\* any longer, and the pages of the owner and of the administrator say so.  The
\* cancel deletes one row, so it relies on createImageUserEntity and
\* createImageAccountEntity to have made only one.
CancelTakesEffect == [][
    \A i \in ImageIds, g \in Grantees :
        UserCancelShareImage(i, g) /\ <<i, g>> \notin doubled =>
            IF g[1] = "user"
            THEN /\ i \notin getUserSharedImages(g[2])'
                 /\ \A nicknamed \in SUBSET ImageUsers :
                        g[2] \in nicknamed \ {ImageOwner} =>
                            g[2] \in UserSearchUngrantedUsers(i, {}, nicknamed)'
            ELSE /\ i \notin getAccountSharedImages(g[2])'
                 /\ g = Everyone => i \notin (AdminListImage.public)' \/ picture'[i].public
                 /\ g # Everyone => g[2] \in UserGetImageUngrantedAccounts(i, ImageAccounts)' ]_imageVars
=============================================================================
