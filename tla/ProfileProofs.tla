--------------------------- MODULE ProfileProofs ---------------------------
(***************************************************************************)
(* Types and photo links of module Profile, for any number of accounts and *)
(* sign-up screens, and whatever the user does and whatever fails; and     *)
(* that accounts are kept apart for a user who waits.                      *)
(***************************************************************************)
EXTENDS Profile, FirestoreOpsProofs, TLAPS

PhotoInv == TypeOK /\ ChainPhotos /\ LinkedPhotoStored

-----------------------------------------------------------------------------
(* Types of the constants the actions build from.                          *)

LEMMA StartedType ==
  /\ [Started EXCEPT !.up = FALSE] \in UIs
  /\ [Started EXCEPT !.up = FALSE].open = {}
  <1>1. 0 \in 0..MaxForms /\ 0 \in Nat
    BY ProfileAssumption
  <1>2. Started \in UIs /\ Started.open = {}
    BY <1>1 DEF Started, UIs, NoneSaving
  <1>3. [Started EXCEPT !.up = FALSE] \in UIs
    BY <1>2 DEF UIs
  <1> QED
    BY <1>2, <1>3 DEF UIs

LEMMA FormType ==
  /\ EmptyForm \in Forms /\ [EmptyForm EXCEPT !.picture = FALSE] \in Forms
  /\ [i \in 1..MaxForms |-> EmptyForm] \in [1..MaxForms -> Forms]
  BY DEF EmptyForm, Forms

LEMMA NoChainType == [a \in Accounts |-> NoChain] \in [Accounts -> Chains]
  BY DEF Chains

LEMMA UnknownType == Unknown \in [Fields -> Values] /\ Unknown["image"] = Absent
  BY DEF Unknown, Missing, Fields, Values

LEMMA DocType ==
  ASSUME NEW a \in Accounts
  PROVE  <<a, "signup">> \in Docs /\ <<a, "own">> \in Docs
  BY DEF Docs, Slots

(* The parts of LinkedPhotoStored.                                         *)
LEMMA LinksApart ==
  ASSUME LinkedPhotoStored
  PROVE  /\ \A d \in Docs : server[d] # Unknown => server[d]["image"] \in photos
         /\ \A u \in Owners : \A i \in DOMAIN queue[u] :
               queue[u][i].patch["image"] \in photos
         /\ profile.image \in photos \cup {Absent}
  BY DEF LinkedPhotoStored, Written

LEMMA LinksTogether ==
  ASSUME \A d \in Docs : server'[d] # Unknown => server'[d]["image"] \in photos',
         \A u \in Owners : \A i \in DOMAIN queue'[u] :
            queue'[u][i].patch["image"] \in photos',
         profile'.image \in photos' \cup {Absent}
  PROVE  LinkedPhotoStored'
  BY DEF LinkedPhotoStored, Written

(* A step that writes nothing and removes no photo.                        *)
LEMMA LinksKept ==
  ASSUME LinkedPhotoStored, UNCHANGED <<server, queue>>, photos \subseteq photos',
         profile'.image \in photos' \cup {Absent}
  PROVE  LinkedPhotoStored'
  BY LinksApart, LinksTogether

LEMMA QueueOfCurrent ==
  ASSUME TypeOK
  PROVE  current \in Owners /\ queue[current] \in Seq(Writes)
  BY DEF TypeOK, Owners

(* A step that queues one document.                                        *)
LEMMA LinkQueued ==
  ASSUME TypeOK, LinkedPhotoStored, NEW w \in Writes,
         queue' = [queue EXCEPT ![current] = Append(queue[current], w)],
         w.patch["image"] \in photos, UNCHANGED <<server, photos, profile>>
  PROVE  LinkedPhotoStored' /\ queue' \in [Owners -> Seq(Writes)]
  <1>1. queue \in [Owners -> Seq(Writes)] /\ queue[current] \in Seq(Writes)
    BY QueueOfCurrent DEF TypeOK
  <1>2. queue' \in [Owners -> Seq(Writes)]
    <2>1. Append(queue[current], w) \in Seq(Writes)
      BY <1>1
    <2> QED
      BY <1>1, <2>1
  <1>3. ASSUME NEW u \in Owners, NEW i \in DOMAIN queue'[u]
        PROVE  queue'[u][i].patch["image"] \in photos
    <2>1. CASE u = current
      <3>1. queue'[u] = Append(queue[u], w)
        BY <1>1, <2>1
      <3>2. \/ i \in DOMAIN queue[u] /\ queue'[u][i] = queue[u][i]
            \/ queue'[u][i] = w
        BY <1>1, <1>3, <2>1, <3>1
      <3> QED
        BY <3>2, LinksApart
    <2>2. CASE u # current
      <3>1. queue'[u] = queue[u]
        BY <1>1, <2>2
      <3> QED
        BY <1>3, <3>1, LinksApart
    <2> QED
      BY <2>1, <2>2
  <1> QED
    BY <1>2, <1>3, LinksApart, LinksTogether

(* What a query finds has values, and its photo is in Storage.             *)
LEMMA ViewLinks ==
  ASSUME TypeOK, LinkedPhotoStored, NEW d \in Docs
  PROVE  /\ \A f \in Fields : View[d][f] \in Values
         /\ View[d]["image"] \in photos \cup {Absent}
  <1> DEFINE q == queue[current]
  <1>0. current \in Owners /\ q \in Seq(Writes)
    BY QueueOfCurrent
  <1>1. \A f \in Fields : View[d][f] = FieldView(server, q, d, f)
    BY DEF View, LocalView, TypeOK
  <1>2. \A i \in DOMAIN q : /\ q[i].patch \in [Fields -> Values]
                            /\ q[i].patch["image"] \in photos
    <2>1. \A i \in DOMAIN q : q[i] \in Writes
      BY <1>0
    <2>2. \A w \in Writes : w.patch \in [Fields -> Values]
      BY DEF Writes
    <2>3. \A i \in DOMAIN q : q[i].patch["image"] \in photos
      BY <1>0, LinksApart
    <2> QED
      BY <2>1, <2>2, <2>3
  <1> HIDE DEF q
  <1>3. server[d] \in [Fields -> Values] /\ "image" \in Fields
    BY DEF TypeOK, Fields
  <1>4. server[d]["image"] \in photos \cup {Absent}
    BY LinksApart, UnknownType
  <1>5. ASSUME NEW f \in Fields
        PROVE  \/ View[d][f] = server[d][f]
               \/ \E i \in DOMAIN q : View[d][f] = q[i].patch[f]
    BY <1>0, <1>1, <1>2, FieldViewSource
  <1>6. \A f \in Fields : View[d][f] \in Values
    BY <1>2, <1>3, <1>5
  <1>7. View[d]["image"] \in photos \cup {Absent}
    BY <1>2, <1>3, <1>4, <1>5
  <1> QED
    BY <1>6, <1>7

LEMMA ShownFound ==
  ASSUME NEW a \in Accounts, Found(a) # {}
  PROVE  Shown(a) \in Docs
  BY DEF Shown, Found
-----------------------------------------------------------------------------
(* Every step keeps PhotoInv.                                              *)

ProfileType == [userId : accounts \cup {Absent}, email : Values,
                name : Values, image : Values]

(* A step of the screens: nothing is written, no photo, chain or account   *)
(* changes.                                                                *)
LEMMA ScreenStep ==
  ASSUME PhotoInv, ui' \in UIs, "signup" \in ui'.open => ui'.form # 0,
         UNCHANGED <<accounts, server, queue, photos, chain>>,
         current' \in accounts \cup {Absent},
         forms' \in [1..MaxForms -> Forms],
         profile' \in ProfileType, profile'.image \in photos \cup {Absent}
  PROVE  PhotoInv'
  <1>1. TypeOK'
    BY DEF PhotoInv, TypeOK, ProfileType
  <1>2. ChainPhotos'
    BY DEF PhotoInv, ChainPhotos
  <1>3. LinkedPhotoStored'
    BY LinksKept DEF PhotoInv
  <1> QED
    BY <1>1, <1>2, <1>3 DEF PhotoInv

LEMMA NoProfileType ==
  NoProfile \in ProfileType /\ NoProfile.image = Absent
  BY DEF NoProfile, ProfileType, Values

LEMMA ProfileNow ==
  ASSUME PhotoInv
  PROVE  profile \in ProfileType /\ profile.image \in photos \cup {Absent}
  BY LinksApart DEF PhotoInv, TypeOK, ProfileType

LEMMA TrapHolds ==
  ASSUME PhotoInv, Trap, UNCHANGED <<accounts, current, server, queue, photos>>
  PROVE  PhotoInv'
  <1>1. TypeOK'
    BY StartedType, FormType, NoChainType, NoProfileType
       DEF PhotoInv, TypeOK, Trap, ProfileType
  <1>2. ChainPhotos'
    BY DEF Trap, ChainPhotos, NoChain
  <1>3. LinkedPhotoStored'
    BY LinksKept, NoProfileType DEF PhotoInv, Trap
  <1> QED
    BY <1>1, <1>2, <1>3 DEF PhotoInv

LEMMA PopHolds ==
  ASSUME PhotoInv, Pop,
         UNCHANGED <<accounts, current, server, queue, photos, chain, forms>>
  PROVE  PhotoInv'
  <1>1. ui \in UIs /\ ("signup" \in ui.open => ui.form # 0)
    BY DEF PhotoInv, TypeOK
  <1>2. current \in accounts \cup {Absent} /\ forms \in [1..MaxForms -> Forms]
    BY DEF PhotoInv, TypeOK
  <1>3. CASE Top = "profile"
    <2>1. PICK pick \in {"orphan", "none"} :
             ui' = [ui EXCEPT !.open = ui.open \ {"profile"}, !.alert = "none",
                              !.told = FALSE, !.loads = {},
                              !.saving = NoneSaving, !.pick = pick]
      BY <1>3 DEF Pop
    <2>2. profile' = NoProfile
      BY <1>3 DEF Pop
    <2>3. ui' \in UIs
      BY <1>1, <2>1 DEF UIs, NoneSaving
    <2>4. "signup" \in ui'.open => ui'.form # 0
      BY <1>1, <2>1 DEF UIs
    <2> QED
      BY <1>2, <2>2, <2>3, <2>4, NoProfileType, ScreenStep
  <1>4. CASE Top # "profile"
    <2>1. 0 \in 0..MaxForms
      BY ProfileAssumption
    <2>2. ui' = [ui EXCEPT !.open = ui.open \ {Top}, !.alert = "none",
                           !.form = IF Top = "signup" THEN 0 ELSE ui.form]
      BY <1>4 DEF Pop
    <2>3. ui' \in UIs
      BY <1>1, <2>1, <2>2 DEF UIs
    <2>4. "signup" \in ui'.open => ui'.form # 0
      BY <1>1, <2>2 DEF UIs
    <2>5. profile' = profile
      BY <1>4 DEF Pop
    <2> QED
      BY <1>2, <2>3, <2>4, <2>5, ProfileNow, ScreenStep
  <1> QED
    BY <1>3, <1>4

(* Log in, log out and the screens.                                        *)
LEMMA SessionHolds ==
  ASSUME PhotoInv,
         \/ Launch \/ SignedIn \/ SignInFailed \/ logOutPressed
         \/ googleButton \/ GoogleSignedIn
         \/ \E a \in Accounts : loginButton(a)
         \/ \E i \in 1..MaxForms : OpenSignUp(i)
         \/ \E name \in Names, email \in Accounts : FillForm(name, email)
         \/ imagePicked
  PROVE  PhotoInv'
  <1>1. /\ ui \in UIs /\ ("signup" \in ui.open => ui.form # 0)
        /\ current \in accounts \cup {Absent}
        /\ forms \in [1..MaxForms -> Forms] /\ accounts \subseteq Accounts
    BY DEF PhotoInv, TypeOK
  <1>2. profile \in ProfileType /\ profile.image \in photos \cup {Absent}
    BY ProfileNow
  <1>3. 0 \in 0..MaxForms /\ \A i \in 1..MaxForms : i \in 0..MaxForms /\ i # 0
    BY ProfileAssumption
  <1>4. CASE Launch
    <2>1. ui' \in UIs /\ ("signup" \in ui'.open => ui'.form # 0)
      BY <1>1, <1>4 DEF Launch, UIs
    <2> QED
      BY <1>1, <1>2, <1>4, <2>1, ScreenStep DEF Launch
  <1>5. CASE SignedIn
    <2>1. PICK told \in BOOLEAN, open \in {ui.open, ui.open \cup {"home"}} :
             ui' = [ui EXCEPT !.signing = Absent, !.told = told, !.open = open]
      <3>1. ("profile" \in ui.open) \in BOOLEAN
        OBVIOUS
      <3> QED
        BY <1>5, <3>1 DEF SignedIn
    <2>2. ui' \in UIs /\ ("signup" \in ui'.open => ui'.form # 0)
      BY <1>1, <2>1 DEF UIs
    <2> QED
      BY <1>1, <1>2, <1>5, <2>2, ScreenStep DEF SignedIn
  <1>6. CASE SignInFailed
    <2>1. ui' \in UIs /\ ("signup" \in ui'.open => ui'.form # 0)
      BY <1>1, <1>6 DEF SignInFailed, UIs
    <2> QED
      BY <1>1, <1>2, <1>6, <2>1, ScreenStep DEF SignInFailed
  <1>7. CASE logOutPressed
    <2>1. PICK popped \in {{}, {"home"}, {"home", "signup"}} :
             ui' = [ui EXCEPT !.open = ui.open \ popped,
                        !.form = IF "signup" \in popped THEN 0 ELSE ui.form]
      BY <1>7 DEF logOutPressed
    <2>2. ui' \in UIs
      BY <1>1, <1>3, <2>1 DEF UIs
    <2>3. "signup" \in ui'.open => ui'.form # 0
      BY <1>1, <2>1 DEF UIs
    <2> QED
      BY <1>1, <1>2, <1>7, <2>2, <2>3, ScreenStep DEF logOutPressed
  <1>8. CASE \E a \in Accounts : loginButton(a)
    <2>1. ui' \in UIs /\ ("signup" \in ui'.open => ui'.form # 0)
      BY <1>1, <1>8 DEF loginButton, UIs
    <2> QED
      BY <1>1, <1>2, <1>8, <2>1, ScreenStep DEF loginButton
  <1>9. CASE \E i \in 1..MaxForms : OpenSignUp(i)
    <2>1. PICK i \in 1..MaxForms : OpenSignUp(i)
      BY <1>9
    <2>2. ui' = [ui EXCEPT !.open = ui.open \cup {"signup"}, !.form = i]
      BY <2>1 DEF OpenSignUp
    <2>3. ui' \in UIs /\ ui'.form # 0
      BY <1>1, <1>3, <2>2 DEF UIs
    <2>4. forms' \in [1..MaxForms -> Forms]
      BY <1>1, <2>1, FormType DEF OpenSignUp
    <2> QED
      BY <1>1, <1>2, <2>1, <2>3, <2>4, ScreenStep DEF OpenSignUp
  <1>10. CASE \E name \in Names, email \in Accounts : FillForm(name, email)
    <2>1. PICK name \in Names, email \in Accounts : FillForm(name, email)
      BY <1>10
    <2>2. forms' \in [1..MaxForms -> Forms]
      BY <1>1, <2>1 DEF FillForm, Forms
    <2> QED
      BY <1>1, <1>2, <2>1, <2>2, ScreenStep DEF FillForm
  <1>11. CASE imagePicked
    <2>1. forms' \in [1..MaxForms -> Forms]
      BY <1>1, <1>11 DEF imagePicked, Forms
    <2> QED
      BY <1>1, <1>2, <1>11, <2>1, ScreenStep DEF imagePicked
  <1>12. CASE googleButton \/ GoogleSignedIn
    <2>1. \/ ui' = [ui EXCEPT !.google = TRUE]
          \/ ui' = [ui EXCEPT !.google = FALSE, !.root = "tabs",
                              !.open = {"home"}, !.alert = "none", !.form = 0]
      BY <1>12 DEF googleButton, GoogleSignedIn
    <2>2. ui' \in UIs /\ ("signup" \in ui'.open => ui'.form # 0)
      <3>1. CASE ui' = [ui EXCEPT !.google = TRUE]
        BY <1>1, <3>1 DEF UIs
      <3>2. CASE ui' = [ui EXCEPT !.google = FALSE, !.root = "tabs",
                                  !.open = {"home"}, !.alert = "none",
                                  !.form = 0]
        <4>1. ui' \in UIs
          BY <1>1, <1>3, <3>2 DEF UIs
        <4>2. ui'.open = {"home"}
          BY <1>1, <3>2 DEF UIs
        <4> QED
          BY <4>1, <4>2
      <3> QED
        BY <2>1, <3>1, <3>2
    <2> QED
      BY <1>1, <1>2, <1>12, <2>2, ScreenStep DEF googleButton, GoogleSignedIn
  <1> QED
    BY <1>4, <1>5, <1>6, <1>7, <1>8, <1>9, <1>10, <1>11, <1>12

-----------------------------------------------------------------------------
(* Signing up.                                                             *)

(* A step of one chain that writes nothing: it may add a photo.            *)
LEMMA ChainStep ==
  ASSUME PhotoInv, NEW a \in Accounts, NEW c \in Chains,
         chain' = [chain EXCEPT ![a] = c],
         c.stage = "url" => <<a, "signup">> \in photos',
         photos \subseteq photos', photos' \subseteq Docs,
         UNCHANGED <<server, queue, forms, profile>>,
         accounts \subseteq accounts', accounts' \subseteq Accounts,
         current' \in accounts' \cup {Absent},
         ui' \in UIs, "signup" \in ui'.open => ui'.form # 0
  PROVE  PhotoInv'
  <1>1. chain \in [Accounts -> Chains]
    BY DEF PhotoInv, TypeOK
  <1>2. TypeOK'
    BY <1>1 DEF PhotoInv, TypeOK
  <1>3. ChainPhotos'
    BY <1>1 DEF PhotoInv, ChainPhotos
  <1>4. LinkedPhotoStored'
    BY LinksKept, ProfileNow DEF PhotoInv
  <1> QED
    BY <1>2, <1>3, <1>4 DEF PhotoInv

LEMMA SignUpHolds ==
  ASSUME PhotoInv, NEW a \in Accounts, SignUpStep(a)
  PROVE  PhotoInv'
  <1>1. /\ ui \in UIs /\ ("signup" \in ui.open => ui.form # 0)
        /\ current \in accounts \cup {Absent} /\ accounts \subseteq Accounts
        /\ photos \subseteq Docs /\ <<a, "signup">> \in Docs
    BY DocType DEF PhotoInv, TypeOK
  <1>2. chain \in [Accounts -> Chains] /\ NoChain \in Chains
        /\ forms \in [1..MaxForms -> Forms]
    BY DEF PhotoInv, TypeOK, Chains
  <1>3. chain[a].stage # "none" =>
           /\ chain[a].vc \in 1..MaxForms
           /\ \A s \in {"create", "created", "put", "url"} :
                 [chain[a] EXCEPT !.stage = s] \in Chains
    BY <1>2 DEF Chains, NoChain
  <1>4. NoChain.stage # "url"
    BY DEF NoChain
  <1>5. CASE signUpButton(a)
    <2>1. ui.form \in 1..MaxForms
      BY <1>1, <1>5, ProfileAssumption DEF signUpButton, Touchable, Top, UIs
    <2>2. [stage |-> "create", vc |-> ui.form] \in Chains
      BY <2>1 DEF Chains
    <2> QED
      BY <1>1, <1>5, <2>2, ChainStep DEF signUpButton
  <1>6. CASE AccountCreated(a)
    <2>1. PICK told \in BOOLEAN : ui' = [ui EXCEPT !.told = told]
      <3>1. CASE "profile" \in ui.open
        <4>1. ("profile" \in ui.open) = TRUE
          BY <3>1
        <4> QED
          BY <1>6, <4>1 DEF AccountCreated
      <3>2. CASE "profile" \notin ui.open
        <4>1. ("profile" \in ui.open) = FALSE
          BY <3>2
        <4> QED
          BY <1>6, <4>1 DEF AccountCreated
      <3> QED
        BY <3>1, <3>2
    <2>2. ui' \in UIs /\ ui'.open = ui.open /\ ui'.form = ui.form
      BY <1>1, <2>1 DEF UIs
    <2>3. chain' = [chain EXCEPT ![a] = [chain[a] EXCEPT !.stage = "created"]]
      BY <1>2, <1>6 DEF AccountCreated
    <2>4. [chain[a] EXCEPT !.stage = "created"] \in Chains
          /\ [chain[a] EXCEPT !.stage = "created"].stage # "url"
      BY <1>2, <1>3, <1>6 DEF AccountCreated, Chains, NoChain
    <2> QED
      BY <1>1, <1>6, <2>2, <2>3, <2>4, ChainStep DEF AccountCreated
  <1>7. CASE CreateFailed(a)
    BY <1>1, <1>2, <1>4, <1>7, ChainStep DEF CreateFailed
  <1>8. CASE CreateCompleted(a)
    <2>1. CASE ~forms[chain[a].vc].picture
      BY <1>8, <2>1, TrapHolds DEF CreateCompleted
    <2>2. CASE forms[chain[a].vc].picture
      <3>1. ui' = ui \/ ui' = [ui EXCEPT !.alert = "signedUp"]
        BY <1>8, <2>2 DEF CreateCompleted
      <3>2. ui' \in UIs /\ ui'.open = ui.open /\ ui'.form = ui.form
        BY <1>1, <3>1 DEF UIs
      <3>3. \/ chain' = [chain EXCEPT ![a] = [chain[a] EXCEPT !.stage = "put"]]
            \/ chain' = [chain EXCEPT ![a] = NoChain]
        BY <1>2, <1>8, <2>2 DEF CreateCompleted
      <3>4. [chain[a] EXCEPT !.stage = "put"] \in Chains
            /\ [chain[a] EXCEPT !.stage = "put"].stage # "url"
        BY <1>2, <1>3, <1>8 DEF CreateCompleted, Chains, NoChain
      <3>5. UNCHANGED <<accounts, current, server, queue, photos, forms, profile>>
        BY <1>8, <2>2 DEF CreateCompleted
      <3> QED
        BY <1>1, <1>2, <1>4, <3>2, <3>3, <3>4, <3>5, ChainStep
    <2> QED
      BY <2>1, <2>2
  <1>9. CASE \E ok \in BOOLEAN : PhotoPut(a, ok)
    <2>1. PICK ok \in BOOLEAN : PhotoPut(a, ok)
      BY <1>9
    <2>2. CASE ok
      <3>1. chain' = [chain EXCEPT ![a] = [chain[a] EXCEPT !.stage = "url"]]
        BY <1>2, <2>1, <2>2 DEF PhotoPut
      <3>2. [chain[a] EXCEPT !.stage = "url"] \in Chains
        BY <1>3, <2>1 DEF PhotoPut
      <3>3. photos' = photos \cup {<<a, "signup">>}
        BY <2>1, <2>2 DEF PhotoPut
      <3> QED
        BY <1>1, <2>1, <3>1, <3>2, <3>3, ChainStep DEF PhotoPut
    <2>3. CASE ~ok
      <3>1. chain' = [chain EXCEPT ![a] = NoChain] /\ photos' = photos
        BY <2>1, <2>3 DEF PhotoPut
      <3> QED
        BY <1>1, <1>2, <1>4, <2>1, <3>1, ChainStep DEF PhotoPut
    <2> QED
      BY <2>2, <2>3
  <1>10. CASE ProfileAdded(a)
    <2> DEFINE form == forms[chain[a].vc]
               patch == Data(a, form.email, form.name, <<a, "signup">>)
    <2>1. chain[a].vc \in 1..MaxForms /\ <<a, "signup">> \in photos
      BY <1>3, <1>10 DEF ProfileAdded, PhotoInv, ChainPhotos
    <2>2. form \in Forms
      BY <1>2, <2>1
    <2>3. form.email \in Values /\ form.name \in Values /\ a \in Values
          /\ <<a, "signup">> \in Values
      BY <1>1, <2>2 DEF Forms, Values
    <2>4. patch \in [Fields -> Values] /\ patch["image"] = <<a, "signup">>
      <3> HIDE DEF form
      <3> QED
        BY <2>3 DEF Data, Fields
    <2> HIDE DEF patch
    <2>5. /\ Write(<<a, "signup">>, patch) \in Writes
          /\ Write(<<a, "signup">>, patch).patch = patch
      BY <1>1, <2>4 DEF Write, Writes
    <2>6. queue' = [queue EXCEPT ![current] =
                       Append(queue[current], Write(<<a, "signup">>, patch))]
      BY <1>10 DEF ProfileAdded, patch
    <2>7. UNCHANGED <<accounts, current, server, photos, ui, profile>>
      BY <1>10 DEF ProfileAdded
    <2>8. LinkedPhotoStored' /\ queue' \in [Owners -> Seq(Writes)]
      BY <2>1, <2>4, <2>5, <2>6, <2>7, LinkQueued DEF PhotoInv
    <2>9. forms' \in [1..MaxForms -> Forms]
      BY <1>2, <1>10, FormType DEF ProfileAdded
    <2>10. chain' = [chain EXCEPT ![a] = NoChain]
      BY <1>10 DEF ProfileAdded
    <2>11. chain' \in [Accounts -> Chains] /\ ChainPhotos'
      BY <1>2, <1>4, <2>7, <2>10 DEF PhotoInv, ChainPhotos
    <2>12. TypeOK'
      BY <2>7, <2>8, <2>9, <2>11 DEF PhotoInv, TypeOK
    <2> QED
      BY <2>8, <2>11, <2>12 DEF PhotoInv
  <1>11. CASE UrlFailed(a)
    BY <1>11, TrapHolds DEF UrlFailed
  <1> QED
    BY <1>5, <1>6, <1>7, <1>8, <1>9, <1>10, <1>11 DEF SignUpStep

-----------------------------------------------------------------------------
(* The profile screen.                                                     *)
LEMMA ProfileHolds ==
  ASSUME PhotoInv, ProfileStep
  PROVE  PhotoInv'
  <1>1. /\ ui \in UIs /\ ("signup" \in ui.open => ui.form # 0)
        /\ current \in accounts \cup {Absent} /\ accounts \subseteq Accounts
        /\ photos \subseteq Docs /\ forms \in [1..MaxForms -> Forms]
    BY DEF PhotoInv, TypeOK
  <1>2. profile \in ProfileType /\ profile.image \in photos \cup {Absent}
    BY ProfileNow
  <1>3. profile.userId \in Accounts \cup {Absent}
    BY <1>1, <1>2 DEF ProfileType
  <1>4. CASE OpenProfile
    <2>1. ui' = [ui EXCEPT !.open = ui.open \cup {"profile"}, !.told = TRUE]
      BY <1>4 DEF OpenProfile
    <2>2. ui' \in UIs /\ ("signup" \in ui'.open => ui'.form # 0)
      BY <1>1, <2>1 DEF UIs
    <2> QED
      BY <1>1, <1>4, <2>2, NoProfileType, ScreenStep DEF OpenProfile
  <1>5. CASE AuthStateDidChange
    <2>1. CASE current = Absent
      <3>1. ui' = [ui EXCEPT !.told = FALSE] /\ profile' = profile
        BY <1>5, <2>1 DEF AuthStateDidChange
      <3>2. ui' \in UIs /\ ("signup" \in ui'.open => ui'.form # 0)
        BY <1>1, <3>1 DEF UIs
      <3> QED
        BY <1>1, <1>2, <1>5, <3>1, <3>2, ScreenStep DEF AuthStateDidChange
    <2>2. CASE current # Absent
      <3>1. /\ ui' = [ui EXCEPT !.told = FALSE, !.loads = ui.loads \cup {current}]
            /\ profile' = [profile EXCEPT !.userId = current]
        BY <1>5, <2>2 DEF AuthStateDidChange
      <3>2. ui' \in UIs /\ ("signup" \in ui'.open => ui'.form # 0)
        BY <1>1, <2>2, <3>1 DEF UIs
      <3>3. profile' \in ProfileType /\ profile'.image = profile.image
        BY <1>1, <1>2, <3>1 DEF ProfileType
      <3> QED
        BY <1>1, <1>2, <1>5, <3>2, <3>3, ScreenStep DEF AuthStateDidChange
    <2> QED
      BY <2>1, <2>2
  <1>6. ASSUME NEW a \in Accounts, getUserData(a) \/ GetFailed(a)
        PROVE  PhotoInv'
    <2>1. ui' = [ui EXCEPT !.loads = ui.loads \ {a}]
      BY <1>6 DEF getUserData, GetFailed
    <2>2. ui' \in UIs /\ ("signup" \in ui'.open => ui'.form # 0)
      BY <1>1, <2>1 DEF UIs
    <2>3. \/ profile' = profile
          \/ \E d \in Docs :
                profile' = [profile EXCEPT !.email = View[d]["email"],
                                           !.name = View[d]["name"],
                                           !.image = View[d]["image"]]
      BY <1>6, ShownFound DEF getUserData, GetFailed
    <2>4. \A d \in Docs :
             /\ View[d]["email"] \in Values /\ View[d]["name"] \in Values
             /\ View[d]["image"] \in Values
             /\ View[d]["image"] \in photos \cup {Absent}
      BY ViewLinks DEF PhotoInv, Fields
    <2>5. profile' \in ProfileType /\ profile'.image \in photos \cup {Absent}
      BY <1>2, <2>3, <2>4 DEF ProfileType
    <2> QED
      BY <1>1, <1>6, <2>2, <2>5, ScreenStep DEF getUserData, GetFailed
  <1>7. ASSUME NEW name \in Names, EditName(name)
        PROVE  PhotoInv'
    <2>1. profile' \in ProfileType /\ profile'.image = profile.image
      BY <1>2, <1>7 DEF EditName, ProfileType, Values
    <2> QED
      BY <1>1, <1>2, <1>7, <2>1, ScreenStep DEF EditName
  <1>8. CASE ProfilePhotoPicked
    <2>1. ui' = [ui EXCEPT !.pick = "put", !.path = profile.userId]
      BY <1>8 DEF ProfilePhotoPicked
    <2>2. ui' \in UIs /\ ("signup" \in ui'.open => ui'.form # 0)
      BY <1>1, <1>3, <2>1 DEF UIs
    <2> QED
      BY <1>1, <1>2, <1>8, <2>2, ScreenStep DEF ProfilePhotoPicked
  <1>9. ASSUME NEW ok \in BOOLEAN, ProfilePhotoPut(ok)
        PROVE  PhotoInv'
    <2>1. \/ ui' = [ui EXCEPT !.pick = "url", !.path = profile.userId]
          \/ ui' = [ui EXCEPT !.pick = "none", !.path = Absent]
      BY <1>9 DEF ProfilePhotoPut
    <2>2. ui' \in UIs /\ ("signup" \in ui'.open => ui'.form # 0)
      BY <1>1, <1>3, <2>1 DEF UIs
    <2>3. ui.path \in Accounts \cup {Absent}
      BY <1>1 DEF UIs
    <2>4. photos' = photos \/ photos' = photos \cup Photo(ui.path)
      BY <1>9 DEF ProfilePhotoPut
    <2>5. photos \subseteq photos' /\ photos' \subseteq Docs
      BY <1>1, <2>3, <2>4, DocType DEF Photo
    <2>6. UNCHANGED <<accounts, current, server, queue, chain, forms, profile>>
      BY <1>9 DEF ProfilePhotoPut
    <2>7. TypeOK'
      BY <2>2, <2>5, <2>6 DEF PhotoInv, TypeOK
    <2>8. ChainPhotos'
      BY <2>5, <2>6 DEF PhotoInv, ChainPhotos
    <2>9. LinkedPhotoStored'
      BY <1>2, <2>5, <2>6, LinksKept DEF PhotoInv
    <2> QED
      BY <2>7, <2>8, <2>9 DEF PhotoInv
  <1>10. ASSUME NEW ok \in BOOLEAN, ProfilePhotoUrl(ok)
         PROVE  PhotoInv'
    <2>1. ui' = [ui EXCEPT !.pick = "none", !.path = Absent]
      BY <1>10 DEF ProfilePhotoUrl
    <2>2. ui' \in UIs /\ ("signup" \in ui'.open => ui'.form # 0)
      BY <1>1, <2>1 DEF UIs
    <2>3. \/ profile' = profile
          \/ /\ Photo(ui.path) \cap photos # {}
             /\ profile' = [profile EXCEPT !.image = <<ui.path, "own">>]
      BY <1>10 DEF ProfilePhotoUrl
    <2>4. Photo(ui.path) \cap photos # {} => <<ui.path, "own">> \in photos
      BY DEF Photo
    <2>5. photos \subseteq Values
      BY <1>1 DEF Values
    <2>6. profile' \in ProfileType /\ profile'.image \in photos \cup {Absent}
      BY <1>2, <2>3, <2>4, <2>5 DEF ProfileType
    <2> QED
      BY <1>1, <1>10, <2>2, <2>6, ScreenStep DEF ProfilePhotoUrl
  <1>11. CASE updateUserData
    <2>1. CASE Absent \in {profile.userId, profile.email, profile.image}
      BY <1>11, <2>1, TrapHolds DEF updateUserData
    <2>2. CASE Absent \notin {profile.userId, profile.email, profile.image}
      <3> DEFINE patch == Data(profile.userId, profile.email, profile.name,
                               profile.image)
                 w == Write(<<profile.userId, "own">>, patch)
      <3>1. profile.userId \in Accounts /\ profile.image \in photos
        BY <1>2, <1>3, <2>2
      <3>2. profile.userId \in Values /\ profile.email \in Values
            /\ profile.name \in Values /\ profile.image \in Values
        BY <1>2, <3>1 DEF ProfileType, Values
      <3>3. patch \in [Fields -> Values] /\ patch["image"] = profile.image
        BY <3>2 DEF Data, Fields
      <3> HIDE DEF patch
      <3>4. w \in Writes /\ w.patch = patch
        BY <3>1, <3>3, DocType DEF Write, Writes
      <3>5. queue' = [queue EXCEPT ![current] = Append(queue[current], w)]
        BY <1>11, <2>2 DEF updateUserData, patch
      <3>6. /\ ui' = [ui EXCEPT !.saving[current] = ui.saving[current] + 1]
            /\ UNCHANGED <<accounts, current, server, photos, chain, forms, profile>>
        BY <1>11, <2>2 DEF updateUserData
      <3> HIDE DEF w
      <3>7. LinkedPhotoStored' /\ queue' \in [Owners -> Seq(Writes)]
        BY <3>1, <3>3, <3>4, <3>5, <3>6, LinkQueued DEF PhotoInv
      <3>8. ui' \in UIs /\ ("signup" \in ui'.open => ui'.form # 0)
        <4>1. ui.saving \in [Owners -> Nat] /\ current \in Owners
          BY <1>1, QueueOfCurrent DEF UIs, PhotoInv
        <4>2. [ui.saving EXCEPT ![current] = ui.saving[current] + 1]
                 \in [Owners -> Nat]
          BY <4>1
        <4> QED
          BY <1>1, <3>6, <4>2 DEF UIs
      <3>9. TypeOK' /\ ChainPhotos'
        BY <3>6, <3>7, <3>8 DEF PhotoInv, TypeOK, ChainPhotos
      <3> QED
        BY <3>7, <3>9 DEF PhotoInv
    <2> QED
      BY <2>1, <2>2
  <1> QED
    BY <1>4, <1>5, <1>6, <1>7, <1>8, <1>9, <1>10, <1>11 DEF ProfileStep

-----------------------------------------------------------------------------
(* The write stream: the head of the queue is stored, or dropped.          *)
LEMMA StreamHolds ==
  ASSUME PhotoInv, WriteDone \/ WriteRefused
  PROVE  PhotoInv'
  <1> DEFINE w == Head(queue[current])
  <1>0. /\ queue \in [Owners -> Seq(Writes)] /\ current \in Owners
        /\ queue[current] \in Seq(Writes) /\ queue[current] # <<>>
        /\ queue' = [queue EXCEPT ![current] = Tail(queue[current])]
    BY QueueOfCurrent DEF PhotoInv, TypeOK, WriteDone, WriteRefused, Pipeline
  <1>2. w \in Writes /\ w = queue[current][1] /\ 1 \in DOMAIN queue[current]
    BY <1>0
  <1>3. /\ queue' \in [Owners -> Seq(Writes)]
        /\ \A u \in Owners : \A i \in DOMAIN queue'[u] :
              \E j \in DOMAIN queue[u] : queue'[u][i] = queue[u][j]
    <2>1. Tail(queue[current]) \in Seq(Writes)
          /\ \A i \in DOMAIN Tail(queue[current]) :
                /\ i + 1 \in DOMAIN queue[current]
                /\ Tail(queue[current])[i] = queue[current][i + 1]
      BY <1>0
    <2> QED
      BY <1>0, <2>1
  <1>4. w.patch["image"] \in photos /\ w.patch \in [Fields -> Values]
        /\ w.doc \in Docs
    BY <1>0, <1>2, LinksApart DEF PhotoInv, Writes
  <1> HIDE DEF w
  <1>5. UNCHANGED <<accounts, current, photos, chain, forms, profile>>
    BY DEF WriteDone, WriteRefused
  <1>6. ui' \in UIs /\ ("signup" \in ui'.open => ui'.form # 0)
    <2>1. ui \in UIs /\ ("signup" \in ui.open => ui.form # 0)
      BY DEF PhotoInv, TypeOK
    <2>2. \/ ui' = ui
          \/ ui.saving[current] > 0
             /\ \E alert \in {"success", "error", ui.alert} :
                ui' = [ui EXCEPT !.saving[current] = ui.saving[current] - 1,
                                 !.alert = alert]
      <3>1. PICK alert \in {"success", "error"} : Reported(alert)
        BY DEF WriteDone, WriteRefused
      <3> QED
        BY <3>1 DEF Reported
    <2>3. ASSUME ui.saving[current] > 0,
                 NEW alert \in {"success", "error", ui.alert},
                 ui' = [ui EXCEPT !.saving[current] = ui.saving[current] - 1,
                                  !.alert = alert]
          PROVE  ui' \in UIs /\ ("signup" \in ui'.open => ui'.form # 0)
      <3>1. ui.saving \in [Owners -> Nat] /\ ui.saving[current] - 1 \in Nat
        BY <1>0, <2>1, <2>3 DEF UIs
      <3>2. [ui.saving EXCEPT ![current] = ui.saving[current] - 1]
               \in [Owners -> Nat]
        BY <1>0, <3>1
      <3> QED
        BY <2>1, <2>3, <3>2 DEF UIs
    <2> QED
      BY <2>1, <2>2, <2>3
  <1>7. server \in [Docs -> [Fields -> Values]]
    BY DEF PhotoInv, TypeOK
  <1>8. ASSUME NEW d \in Docs
        PROVE  /\ server'[d] \in [Fields -> Values]
               /\ \/ server'[d] = server[d]
                  \/ server'[d]["image"] \in photos
    <2>1. CASE server' = server
      BY <1>7, <2>1
    <2>2. CASE server' = Commit(server, w)
      <3>1. server'[d] = IF d = w.doc THEN Apply(server[d], w.patch) ELSE server[d]
        BY <1>4, <1>7, <2>2 DEF Commit
      <3>2. server[d] \in [Fields -> Values] /\ "image" \in Fields
        BY <1>7 DEF Fields
      <3>3. Apply(server[d], w.patch) \in [Fields -> Values]
        BY <1>4, <3>2 DEF Apply
      <3>4. w.patch["image"] # Keep
        BY <1>4, ProfileAssumption DEF PhotoInv, TypeOK
      <3>5. Apply(server[d], w.patch)["image"] = w.patch["image"]
        BY <3>2, <3>4 DEF Apply
      <3> QED
        BY <1>4, <3>1, <3>2, <3>3, <3>5
    <2> QED
      BY <2>1, <2>2 DEF WriteDone, WriteRefused, Pipeline, w
  <1>9. server' \in [Docs -> [Fields -> Values]]
    <2>1. server' = [d \in Docs |-> server'[d]]
      BY <1>7 DEF WriteDone, WriteRefused, Pipeline, Commit
    <2> QED
      BY <1>8, <2>1
  <1>10. LinkedPhotoStored'
    BY <1>3, <1>5, <1>8, LinksApart, LinksTogether DEF PhotoInv
  <1>11. TypeOK' /\ ChainPhotos'
    BY <1>3, <1>5, <1>6, <1>9 DEF PhotoInv, TypeOK, ChainPhotos
  <1> QED
    BY <1>10, <1>11 DEF PhotoInv

-----------------------------------------------------------------------------
LEMMA InitHolds == Init => PhotoInv
  <1> SUFFICES ASSUME Init PROVE PhotoInv
    OBVIOUS
  <1>1. server \in [Docs -> [Fields -> Values]] /\ \A d \in Docs : server[d] = Unknown
    BY UnknownType DEF Init
  <1>2. queue \in [Owners -> Seq(Writes)] /\ \A u \in Owners : queue[u] = <<>>
    BY DEF Init
  <1>3. profile = NoProfile /\ profile.image = Absent /\ profile \in ProfileType
    BY NoProfileType DEF Init
  <1>4. TypeOK
    BY <1>1, <1>2, <1>3, StartedType, FormType, NoChainType
       DEF Init, TypeOK, ProfileType
  <1>5. ChainPhotos
    BY DEF Init, ChainPhotos, NoChain
  <1>6. LinkedPhotoStored
    BY <1>1, <1>2, <1>3 DEF LinkedPhotoStored, Written
  <1> QED
    BY <1>4, <1>5, <1>6 DEF PhotoInv

LEMMA NextHolds == PhotoInv /\ [Next]_vars => PhotoInv'
  <1> SUFFICES ASSUME PhotoInv, [Next]_vars PROVE PhotoInv'
    OBVIOUS
  <1>1. CASE UNCHANGED vars
    BY <1>1 DEF vars, PhotoInv, TypeOK, ChainPhotos, LinkedPhotoStored, Written
  <1>2. CASE Kill \/ GoogleFailed \/ OpenPostings
    BY <1>2, TrapHolds DEF Kill, GoogleFailed, OpenPostings
  <1>3. CASE Back \/ AlertOk
    BY <1>3, PopHolds DEF Back, AlertOk
  <1>4. CASE \E a \in Accounts : SignUpStep(a)
    BY <1>4, SignUpHolds
  <1> QED
    BY <1>1, <1>2, <1>3, <1>4, SessionHolds, ProfileHolds, StreamHolds DEF Next

(* For any accounts and sign-up screens, and whatever the user does and    *)
(* whatever fails: the current user and the user of the profile screen are *)
(* accounts that Auth knows, and a sign-up chain belongs to a screen that  *)
(* exists.                                                                 *)
THEOREM ProfileTypes == Spec => []TypeOK
  <1>1. PhotoInv => TypeOK
    BY DEF PhotoInv
  <1> QED
    BY <1>1, InitHolds, NextHolds, PTL DEF Spec

(* No profile, stored or queued or on the screen, links to a photo that    *)
(* was not uploaded: uploadProfileImage asks for the url only after        *)
(* putData has succeeded, updateUserData writes a url it has read or just  *)
(* uploaded, and nothing deletes a photo.                                  *)
THEOREM LinkedPhotosAreStored == Spec => []LinkedPhotoStored
  <1>1. PhotoInv => LinkedPhotoStored
    BY DEF PhotoInv
  <1> QED
    BY <1>1, InitHolds, NextHolds, PTL DEF Spec

-----------------------------------------------------------------------------
(***************************************************************************)
(* The accounts of one device are kept apart, for a user who waits for     *)
(* Auth before leaving a screen and leaves the form alone meanwhile: for   *)
(* any accounts and sign-up screens, whatever fails, and whatever else the *)
(* user does, a Google sign-in included.                                   *)
(***************************************************************************)

Waits == {"leave", "retype"} \cap Habits = {}

Asking(a) == chain[a].stage \in {"create", "created"}

(* The form of a chain keeps the address the account was asked for.        *)
FormsInv ==
    \A a \in Accounts : Pending(a) => forms[chain[a].vc].email = a

(* While Auth creates an account the sign-up screen stays, and while it    *)
(* logs somebody in the log-in screen stays.                               *)
AskingInv ==
    \A a \in Accounts : Asking(a) =>
        /\ ui.open = {"signup"} /\ chain[a].vc = ui.form
        /\ ui.alert = "none" /\ ~ui.google
        /\ ui.signing = Absent

SigningInv ==
    ui.signing # Absent => ui.open = {} /\ ui.alert = "none" /\ ~ui.google

ScreensInv ==
    /\ ui.root = "tabs" \/ "profile" \in ui.open => "home" \in ui.open
    /\ ui.google => ui.open = {} /\ ui.alert = "none"
    /\ ui.alert = "signedUp" => ui.open = {"signup"}
    /\ ui.alert \in {"success", "error"} => "profile" \in ui.open

(* The profile screen is about nobody yet, or about the current user.      *)
ProfileInv ==
    /\ "profile" \notin ui.open =>
          /\ profile = NoProfile
          /\ ~ui.told /\ ui.loads = {} /\ ui.pick \in {"none", "orphan"}
    /\ profile.userId \in {Absent, current}
    /\ ui.loads \subseteq {profile.userId}
    /\ profile.email \in {Absent, profile.userId}
    /\ profile.image # Absent => profile.image[1] = profile.userId
    /\ ui.pick = "url" => ui.path \in {Absent, profile.userId}

(* The data of account a.                                                  *)
Is(data, a) ==
    data["user"] = a /\ data["email"] = a /\ data["image"][1] = a

StoredInv == \A d \in Docs : server[d] # Unknown => Is(server[d], d[1])

QueuedInv ==
    \A u \in Owners : \A i \in DOMAIN queue[u] :
        Is(queue[u][i].patch, queue[u][i].doc[1])

ApartInv ==
    /\ FormsInv /\ AskingInv /\ SigningInv /\ ScreensInv
    /\ ProfileInv /\ StoredInv /\ QueuedInv /\ UpdatesOfTheirUser

-----------------------------------------------------------------------------
(* What the screen on top says about the others.                           *)
LEMMA TopFacts ==
  ASSUME TypeOK
  PROVE  /\ Top = "login" => ui.open = {}
         /\ Top = "signup" => ui.open = {"signup"}
         /\ Top = "home" => "home" \in ui.open /\ "profile" \notin ui.open
         /\ Top = "profile" <=> "profile" \in ui.open
  BY DEF TypeOK, UIs, Top

(* One account at a time is asked for: the form has one address.           *)
LEMMA OneAsked ==
  ASSUME ApartInv, NEW a \in Accounts, NEW b \in Accounts,
         Asking(a), Asking(b)
  PROVE  a = b
  <1>1. chain[a].vc = ui.form /\ chain[b].vc = ui.form
    BY DEF ApartInv, AskingInv
  <1>2. Pending(a) /\ Pending(b)
    BY DEF Asking, Pending
  <1> QED
    BY <1>1, <1>2 DEF ApartInv, FormsInv

LEMMA PendingForm ==
  ASSUME TypeOK, NEW a \in Accounts, Pending(a)
  PROVE  chain[a].vc \in 1..MaxForms
  BY DEF TypeOK, Chains, Pending, NoChain

LEMMA NobodyIsNoAccount == Absent \notin Accounts
  BY ProfileAssumption

(* A step of the screens changes no data and no chain.                     *)
LEMMA ScreenApart ==
  ASSUME ApartInv, UNCHANGED <<server, queue, chain, forms>>,
         AskingInv', SigningInv', ScreensInv', ProfileInv'
  PROVE  ApartInv'
  <1>1. FormsInv'
    BY DEF ApartInv, FormsInv, Pending
  <1>2. StoredInv' /\ QueuedInv' /\ UpdatesOfTheirUser'
    BY DEF ApartInv, StoredInv, QueuedInv, UpdatesOfTheirUser, Is
  <1> QED
    BY <1>1, <1>2 DEF ApartInv

(* The process ends: nothing is shown, asked for or pending any more.      *)
LEMMA TrapApart ==
  ASSUME ApartInv, Trap, UNCHANGED <<server, queue>>
  PROVE  ApartInv'
  <1>1. \A a \in Accounts : chain'[a].stage = "none"
    BY DEF Trap, NoChain
  <1>2. FormsInv' /\ AskingInv'
    BY <1>1 DEF FormsInv, AskingInv, Asking, Pending
  <1>3. /\ ui'.open = {} /\ ui'.root = "navigation" /\ ~ui'.google
        /\ ui'.alert = "none" /\ ui'.signing = Absent /\ ~ui'.told
        /\ ui'.loads = {} /\ ui'.pick = "none"
    BY DEF Trap, Started
  <1>4. SigningInv' /\ ScreensInv'
    BY <1>3 DEF SigningInv, ScreensInv
  <1>5. ProfileInv'
    BY <1>3 DEF ProfileInv, Trap, NoProfile
  <1>6. StoredInv' /\ QueuedInv' /\ UpdatesOfTheirUser'
    BY DEF ApartInv, StoredInv, QueuedInv, UpdatesOfTheirUser, Is
  <1> QED
    BY <1>2, <1>4, <1>5, <1>6 DEF ApartInv

(* A step that queues one document of an account, in its own queue if it   *)
(* comes from the profile screen.                                          *)
LEMMA QueuedApart ==
  ASSUME TypeOK, QueuedInv, UpdatesOfTheirUser, NEW w,
         queue' = [queue EXCEPT ![current] = Append(queue[current], w)],
         Is(w.patch, w.doc[1]), w.doc[2] = "own" => w.doc[1] = current
  PROVE  QueuedInv' /\ UpdatesOfTheirUser'
  <1>1. queue \in [Owners -> Seq(Writes)] /\ queue[current] \in Seq(Writes)
        /\ current \in Owners
    BY QueueOfCurrent DEF TypeOK
  <1>2. ASSUME NEW u \in Owners, NEW i \in DOMAIN queue'[u]
        PROVE  /\ Is(queue'[u][i].patch, queue'[u][i].doc[1])
               /\ queue'[u][i].doc[2] = "own" => queue'[u][i].doc[1] = u
    <2>1. CASE u = current
      <3>1. queue'[u] = Append(queue[u], w)
        BY <1>1, <2>1
      <3>2. \/ i \in DOMAIN queue[u] /\ queue'[u][i] = queue[u][i]
            \/ queue'[u][i] = w
        BY <1>1, <1>2, <2>1, <3>1
      <3> QED
        BY <2>1, <3>2 DEF QueuedInv, UpdatesOfTheirUser
    <2>2. CASE u # current
      <3>1. queue'[u] = queue[u]
        BY <1>1, <2>2
      <3> QED
        BY <1>2, <3>1 DEF QueuedInv, UpdatesOfTheirUser
    <2> QED
      BY <2>1, <2>2
  <1>3. QueuedInv'
    BY <1>2 DEF QueuedInv, Is
  <1>4. UpdatesOfTheirUser'
    BY <1>2 DEF UpdatesOfTheirUser
  <1> QED
    BY <1>3, <1>4

-----------------------------------------------------------------------------
(* Log in and out, and the Google sign-in.                                 *)
LEMMA SessionApart ==
  ASSUME PhotoInv, ApartInv, Waits,
         \/ Launch \/ SignedIn \/ SignInFailed \/ logOutPressed
         \/ googleButton \/ GoogleSignedIn
         \/ \E a \in Accounts : loginButton(a)
  PROVE  ApartInv'
  <1>1. TypeOK /\ ui \in UIs
    BY DEF PhotoInv, TypeOK
  <1>2. AskingInv /\ SigningInv /\ ScreensInv /\ ProfileInv
    BY DEF ApartInv
  <1>3. UNCHANGED <<server, queue, chain, forms, profile>>
    BY DEF Launch, SignedIn, SignInFailed, logOutPressed, googleButton,
           GoogleSignedIn, loginButton
  <1>4. CASE Launch
    <2>1. ui' = [ui EXCEPT !.up = TRUE] /\ current' = current
      BY <1>4 DEF Launch
    <2>2. AskingInv' /\ SigningInv' /\ ScreensInv'
      BY <1>1, <1>2, <1>3, <2>1
         DEF UIs, AskingInv, Asking, SigningInv, ScreensInv
    <2>3. ProfileInv'
      BY <1>1, <1>2, <1>3, <2>1 DEF UIs, ProfileInv
    <2> QED
      BY <1>3, <2>2, <2>3, ScreenApart
  <1>5. CASE SignedIn
    <2>1. ui.open = {} /\ ui.alert = "none" /\ ~ui.google /\ ui.root # "tabs"
      BY <1>1, <1>2, <1>5, NobodyIsNoAccount
         DEF SignedIn, SigningInv, ScreensInv, TypeOK
    <2>2. /\ ui'.open = {"home"} /\ ui'.alert = "none" /\ ~ui'.google
          /\ ui'.signing = Absent /\ ~ui'.told /\ ui'.loads = ui.loads
          /\ ui'.pick = ui.pick
      BY <1>1, <1>5, <2>1 DEF SignedIn, UIs
    <2>3. AskingInv' /\ SigningInv' /\ ScreensInv'
      BY <1>2, <1>3, <2>1, <2>2
         DEF AskingInv, Asking, SigningInv, ScreensInv
    <2>4. ProfileInv'
      BY <1>2, <1>3, <2>1, <2>2 DEF ProfileInv, NoProfile
    <2> QED
      BY <1>3, <2>3, <2>4, ScreenApart
  <1>6. CASE SignInFailed
    <2>1. ui' = [ui EXCEPT !.signing = Absent] /\ current' = current
      BY <1>6 DEF SignInFailed
    <2>2. AskingInv' /\ SigningInv' /\ ScreensInv'
      BY <1>1, <1>2, <1>3, <2>1
         DEF UIs, AskingInv, Asking, SigningInv, ScreensInv
    <2>3. ProfileInv'
      BY <1>1, <1>2, <1>3, <2>1 DEF UIs, ProfileInv
    <2> QED
      BY <1>3, <2>2, <2>3, ScreenApart
  <1>7. CASE logOutPressed
    <2>1. "home" \in ui.open /\ "profile" \notin ui.open
          /\ ui.alert = "none" /\ ~ui.google
      BY <1>1, <1>7, TopFacts DEF logOutPressed, Touchable
    <2>2. PICK popped \in {{}, {"home"}, {"home", "signup"}} :
             /\ ui.root = "tabs" => popped = {}
             /\ ui' = [ui EXCEPT !.open = ui.open \ popped,
                        !.form = IF "signup" \in popped THEN 0 ELSE ui.form]
      BY <1>7 DEF logOutPressed
    <2>3. AskingInv' /\ SigningInv' /\ ScreensInv'
      BY <1>1, <1>2, <1>3, <2>1, <2>2
         DEF UIs, AskingInv, Asking, SigningInv, ScreensInv
    <2>4. ProfileInv'
      BY <1>1, <1>2, <1>3, <2>1, <2>2 DEF UIs, ProfileInv, NoProfile
    <2> QED
      BY <1>3, <2>3, <2>4, ScreenApart
  <1>8. CASE googleButton
    <2>1. ui.open = {} /\ ui.alert = "none" /\ ui.signing = Absent
      BY <1>1, <1>8, TopFacts DEF googleButton, Touchable, Waits
    <2>2. ui' = [ui EXCEPT !.google = TRUE] /\ current' = current
      BY <1>8 DEF googleButton
    <2>3. AskingInv' /\ SigningInv' /\ ScreensInv'
      BY <1>1, <1>2, <1>3, <2>1, <2>2
         DEF UIs, AskingInv, Asking, SigningInv, ScreensInv
    <2>4. ProfileInv'
      BY <1>1, <1>2, <1>3, <2>2 DEF UIs, ProfileInv
    <2> QED
      BY <1>3, <2>3, <2>4, ScreenApart
  <1>9. CASE GoogleSignedIn
    <2>1. ui.open = {} /\ ui.signing = Absent
      BY <1>2, <1>9 DEF GoogleSignedIn, ScreensInv, SigningInv
    <2>2. /\ ui'.open = {"home"} /\ ui'.alert = "none" /\ ~ui'.google
          /\ ui'.signing = ui.signing /\ ui'.told = ui.told
          /\ ui'.loads = ui.loads /\ ui'.pick = ui.pick
          /\ ui'.path = ui.path /\ current' = current
      BY <1>1, <1>9 DEF GoogleSignedIn, UIs
    <2>3. AskingInv' /\ SigningInv' /\ ScreensInv'
      BY <1>2, <1>3, <2>1, <2>2
         DEF AskingInv, Asking, SigningInv, ScreensInv
    <2>4. ProfileInv'
      BY <1>2, <1>3, <2>1, <2>2 DEF ProfileInv
    <2> QED
      BY <1>3, <2>3, <2>4, ScreenApart
  <1>10. CASE \E a \in Accounts : loginButton(a)
    <2>1. ui.open = {} /\ ui.alert = "none" /\ ~ui.google
      BY <1>1, <1>10, TopFacts DEF loginButton, Touchable
    <2>2. PICK a \in Accounts : ui' = [ui EXCEPT !.signing = a]
      BY <1>10 DEF loginButton
    <2>3. AskingInv' /\ SigningInv' /\ ScreensInv'
      BY <1>1, <1>2, <1>3, <2>1, <2>2
         DEF UIs, AskingInv, Asking, SigningInv, ScreensInv
    <2>4. ProfileInv'
      BY <1>1, <1>2, <1>3, <1>10, <2>2 DEF UIs, ProfileInv, loginButton
    <2> QED
      BY <1>3, <2>3, <2>4, ScreenApart
  <1> QED
    BY <1>4, <1>5, <1>6, <1>7, <1>8, <1>9, <1>10

-----------------------------------------------------------------------------
(* Opening and filling in the form.                                        *)
LEMMA FormApart ==
  ASSUME PhotoInv, ApartInv, Waits,
         \/ \E i \in 1..MaxForms : OpenSignUp(i)
         \/ \E name \in Names, email \in Accounts : FillForm(name, email)
         \/ imagePicked
  PROVE  ApartInv'
  <1>1. TypeOK /\ ui \in UIs /\ forms \in [1..MaxForms -> Forms]
    BY DEF PhotoInv, TypeOK
  <1>2. FormsInv /\ AskingInv /\ SigningInv /\ ScreensInv /\ ProfileInv
    BY DEF ApartInv
  <1>3. UNCHANGED <<current, server, queue, chain, profile>>
    BY DEF OpenSignUp, FillForm, imagePicked
  <1>4. StoredInv' /\ QueuedInv' /\ UpdatesOfTheirUser'
    BY <1>3 DEF ApartInv, StoredInv, QueuedInv, UpdatesOfTheirUser, Is
  <1>5. CASE \E i \in 1..MaxForms : OpenSignUp(i)
    <2>1. PICK i \in 1..MaxForms : OpenSignUp(i)
      BY <1>5
    <2>2. ui.open = {} /\ ui.alert = "none" /\ ~ui.google
          /\ ui.signing = Absent
      BY <1>1, <2>1, TopFacts DEF OpenSignUp, Touchable, Waits
    <2>3. ui' = [ui EXCEPT !.open = ui.open \cup {"signup"}, !.form = i]
      BY <2>1 DEF OpenSignUp
    <2>4. /\ ui'.open = {"signup"} /\ ui'.alert = ui.alert
          /\ ui'.google = ui.google /\ ui'.signing = ui.signing
          /\ ui'.root = ui.root /\ ui'.told = ui.told
          /\ ui'.loads = ui.loads /\ ui'.pick = ui.pick /\ ui'.path = ui.path
      BY <1>1, <2>2, <2>3 DEF UIs
    <2>5. FormsInv'
      <3> SUFFICES ASSUME NEW a \in Accounts, Pending(a)
                   PROVE  forms'[chain[a].vc].email = a
        BY <1>3 DEF FormsInv, Pending
      <3>1. chain[a].vc \in 1..MaxForms /\ chain[a].vc # i
        BY <1>1, <2>1, PendingForm DEF OpenSignUp
      <3>2. forms'[chain[a].vc] = forms[chain[a].vc]
        BY <1>1, <2>1, <3>1 DEF OpenSignUp
      <3> QED
        BY <1>2, <3>2 DEF FormsInv
    <2>6. AskingInv' /\ SigningInv' /\ ScreensInv'
      BY <1>2, <1>3, <2>2, <2>4
         DEF AskingInv, Asking, SigningInv, ScreensInv
    <2>7. ProfileInv'
      BY <1>2, <1>3, <2>2, <2>4 DEF ProfileInv
    <2> QED
      BY <1>4, <2>5, <2>6, <2>7 DEF ApartInv
  <1>6. CASE \/ \E name \in Names, email \in Accounts : FillForm(name, email)
             \/ imagePicked
    <2>1. ui' = ui
      BY <1>6 DEF FillForm, imagePicked
    <2>2. ASSUME NEW a \in Accounts, Pending(a)
          PROVE  forms'[chain[a].vc].email = a
      <3>1. CASE imagePicked
        <4>1. \A i \in 1..MaxForms : forms'[i].email = forms[i].email
          BY <1>1, <3>1 DEF imagePicked, Forms
        <4>2. chain[a].vc \in 1..MaxForms
          BY <1>1, <2>2, PendingForm
        <4> QED
          BY <1>2, <2>2, <4>1, <4>2 DEF FormsInv
      <3>2. CASE \E name \in Names, email \in Accounts : FillForm(name, email)
        <4>1. chain[a].vc # ui.form
          BY <2>2, <3>2 DEF FillForm, Waits
        <4>2. chain[a].vc \in 1..MaxForms
          BY <1>1, <2>2, PendingForm
        <4>3. forms'[chain[a].vc] = forms[chain[a].vc]
          BY <1>1, <3>2, <4>1, <4>2 DEF FillForm
        <4> QED
          BY <1>2, <2>2, <4>3 DEF FormsInv
      <3> QED
        BY <1>6, <3>1, <3>2
    <2>3. FormsInv'
      BY <1>3, <2>2 DEF FormsInv, Pending
    <2>4. AskingInv' /\ SigningInv' /\ ScreensInv' /\ ProfileInv'
      BY <1>2, <1>3, <2>1
         DEF AskingInv, Asking, SigningInv, ScreensInv, ProfileInv
    <2> QED
      BY <1>4, <2>3, <2>4 DEF ApartInv
  <1> QED
    BY <1>5, <1>6

(* Leaving a screen, by hand or with the Ok of an alert.                   *)
LEMMA PopApart ==
  ASSUME PhotoInv, ApartInv, Waits, Back \/ AlertOk
  PROVE  ApartInv'
  <1>1. TypeOK /\ ui \in UIs
    BY DEF PhotoInv, TypeOK
  <1>2. AskingInv /\ SigningInv /\ ScreensInv /\ ProfileInv
    BY DEF ApartInv
  <1>3. UNCHANGED <<current, server, queue, chain, forms>> /\ Pop
    BY DEF Back, AlertOk
  <1>4. Top = "signup" \/ Top = "profile"
    <2>1. CASE Back
      BY <2>1 DEF Back, Touchable
    <2>2. CASE AlertOk
      <3>1. ui.alert \in {"signedUp", "success", "error"}
        BY <1>1, <2>2 DEF AlertOk, UIs
      <3>2. ui.open = {"signup"} \/ "profile" \in ui.open
        BY <1>2, <3>1 DEF ScreensInv
      <3> QED
        BY <3>2 DEF Top
    <2> QED
      BY <2>1, <2>2
  <1>5. CASE Top = "profile"
    <2>1. "profile" \in ui.open
      BY <1>1, <1>5, TopFacts
    <2>2. PICK pick \in {"orphan", "none"} :
             ui' = [ui EXCEPT !.open = ui.open \ {"profile"}, !.alert = "none",
                              !.told = FALSE, !.loads = {},
                              !.saving = NoneSaving, !.pick = pick]
      BY <1>3, <1>5 DEF Pop
    <2>3. /\ ui'.open = ui.open \ {"profile"} /\ ui'.alert = "none"
          /\ ui'.google = ui.google /\ ui'.signing = ui.signing
          /\ ui'.root = ui.root /\ ~ui'.told /\ ui'.loads = {}
          /\ ui'.pick \in {"orphan", "none"}
      BY <1>1, <2>2 DEF UIs
    <2>4. profile' = NoProfile
      BY <1>3, <1>5 DEF Pop
    <2>5. AskingInv' /\ SigningInv' /\ ScreensInv'
      BY <1>2, <1>3, <2>1, <2>3
         DEF AskingInv, Asking, SigningInv, ScreensInv
    <2>6. ProfileInv'
      BY <1>2, <1>3, <2>3, <2>4 DEF ProfileInv, NoProfile
    <2> QED
      BY <1>3, <2>5, <2>6, ScreenApart
  <1>6. CASE Top = "signup"
    <2>1. ui.open = {"signup"} /\ ui.signing = Absent /\ ~ui.google
      BY <1>1, <1>2, <1>6, TopFacts DEF SigningInv, ScreensInv
    <2>2. \A a \in Accounts : ~Asking(a)
      <3>1. CASE Back
        BY <1>6, <3>1 DEF Back, Waits, Asking
      <3>2. CASE AlertOk
        BY <1>2, <3>2 DEF AlertOk, AskingInv
      <3> QED
        BY <3>1, <3>2
    <2>3. ui' = [ui EXCEPT !.open = ui.open \ {Top}, !.alert = "none",
                           !.form = IF Top = "signup" THEN 0 ELSE ui.form]
      BY <1>3, <1>6 DEF Pop
    <2>4. /\ ui'.open = {} /\ ui'.alert = "none" /\ ui'.google = ui.google
          /\ ui'.signing = ui.signing /\ ui'.root = ui.root
          /\ ui'.told = ui.told /\ ui'.loads = ui.loads
          /\ ui'.pick = ui.pick /\ ui'.path = ui.path
      BY <1>1, <1>6, <2>1, <2>3 DEF UIs
    <2>5. profile' = profile
      BY <1>3, <1>6 DEF Pop
    <2>6. AskingInv' /\ SigningInv' /\ ScreensInv'
      BY <1>2, <1>3, <2>1, <2>2, <2>4
         DEF AskingInv, Asking, SigningInv, ScreensInv
    <2>7. ProfileInv'
      BY <1>2, <1>3, <2>1, <2>4, <2>5 DEF ProfileInv
    <2> QED
      BY <1>3, <2>6, <2>7, ScreenApart
  <1> QED
    BY <1>4, <1>5, <1>6

-----------------------------------------------------------------------------
(* Signing up.                                                             *)

(* A chain ends or goes on, without a question to Auth, and the screens    *)
(* stay as they are but for an alert.                                      *)
LEMMA ChainApart ==
  ASSUME PhotoInv, ApartInv, NEW a \in Accounts,
         \A b \in Accounts \ {a} : chain'[b] = chain[b],
         chain'[a].stage = "none" \/ chain'[a].vc = chain[a].vc,
         Pending(a), ~Asking(a)',
         UNCHANGED <<current, server, queue, forms, profile>>,
         \/ ui' = ui
         \/ /\ ui' = [ui EXCEPT !.alert = "signedUp"]
            /\ ui.open = {"signup"} /\ ~ui.google /\ ui.signing = Absent
            /\ \A b \in Accounts \ {a} : ~Asking(b)
  PROVE  ApartInv'
  <1>1. ui \in UIs /\ AskingInv /\ SigningInv /\ ScreensInv /\ ProfileInv
        /\ FormsInv
    BY DEF PhotoInv, TypeOK, ApartInv
  <1>2. StoredInv' /\ QueuedInv' /\ UpdatesOfTheirUser'
    BY DEF ApartInv, StoredInv, QueuedInv, UpdatesOfTheirUser, Is
  <1>3. FormsInv'
    BY <1>1 DEF FormsInv, Pending
  <1>4. /\ ui'.open = ui.open /\ ui'.google = ui.google
        /\ ui'.signing = ui.signing /\ ui'.root = ui.root
        /\ ui'.told = ui.told /\ ui'.loads = ui.loads
        /\ ui'.pick = ui.pick /\ ui'.path = ui.path /\ ui'.form = ui.form
        /\ \/ ui'.alert = ui.alert
           \/ /\ ui'.alert = "signedUp"
              /\ ui.open = {"signup"} /\ ~ui.google /\ ui.signing = Absent
              /\ \A b \in Accounts \ {a} : ~Asking(b)
    BY <1>1 DEF UIs
  <1>5. AskingInv'
    <2> SUFFICES ASSUME NEW b \in Accounts, Asking(b)'
                 PROVE  /\ ui'.open = {"signup"} /\ chain'[b].vc = ui'.form
                        /\ ui'.alert = "none" /\ ~ui'.google
                        /\ ui'.signing = Absent
      BY DEF AskingInv
    <2>1. b # a /\ chain'[b] = chain[b] /\ Asking(b)
      BY DEF Asking
    <2> QED
      BY <1>1, <1>4, <2>1 DEF AskingInv
  <1>6. SigningInv' /\ ScreensInv'
    BY <1>1, <1>4 DEF SigningInv, ScreensInv
  <1>7. ProfileInv'
    BY <1>1, <1>4 DEF ProfileInv
  <1> QED
    BY <1>2, <1>3, <1>5, <1>6, <1>7 DEF ApartInv

LEMMA SignUpApart ==
  ASSUME PhotoInv, ApartInv, NEW a \in Accounts, SignUpStep(a)
  PROVE  ApartInv'
  <1>1. TypeOK /\ ui \in UIs /\ chain \in [Accounts -> Chains]
        /\ forms \in [1..MaxForms -> Forms]
    BY DEF PhotoInv, TypeOK
  <1>2. FormsInv /\ AskingInv /\ SigningInv /\ ScreensInv /\ ProfileInv
    BY DEF ApartInv
  <1>3. CASE signUpButton(a)
    <2>1. /\ ui.open = {"signup"} /\ ui.alert = "none" /\ ~ui.google
          /\ ui.signing = Absent
      BY <1>1, <1>2, <1>3, TopFacts DEF signUpButton, Touchable, SigningInv
    <2>2. chain' = [chain EXCEPT ![a] = [stage |-> "create", vc |-> ui.form]]
          /\ forms[ui.form].email = a
          /\ UNCHANGED <<current, server, queue, forms, ui, profile>>
      BY <1>3 DEF signUpButton
    <2>3. FormsInv'
      BY <1>1, <1>2, <2>2 DEF FormsInv, Pending
    <2>4. AskingInv'
      BY <1>1, <1>2, <2>1, <2>2 DEF AskingInv, Asking
    <2>5. SigningInv' /\ ScreensInv' /\ ProfileInv'
      BY <1>2, <2>2 DEF SigningInv, ScreensInv, ProfileInv
    <2>6. StoredInv' /\ QueuedInv' /\ UpdatesOfTheirUser'
      BY <2>2 DEF ApartInv, StoredInv, QueuedInv, UpdatesOfTheirUser, Is
    <2> QED
      BY <2>3, <2>4, <2>5, <2>6 DEF ApartInv
  <1>4. CASE AccountCreated(a)
    <2>1. Asking(a) /\ "profile" \notin ui.open
      BY <1>2, <1>4 DEF AccountCreated, Asking, AskingInv
    <2>2. ui' = [ui EXCEPT !.told = FALSE]
      <3>1. ("profile" \in ui.open) = FALSE
        BY <2>1
      <3> QED
        BY <1>4, <3>1 DEF AccountCreated
    <2>3. /\ ui'.open = ui.open /\ ui'.google = ui.google
          /\ ui'.signing = ui.signing /\ ui'.root = ui.root
          /\ ~ui'.told /\ ui'.loads = ui.loads /\ ui'.alert = ui.alert
          /\ ui'.pick = ui.pick /\ ui'.path = ui.path /\ ui'.form = ui.form
      BY <1>1, <2>2 DEF UIs
    <2>4. /\ chain' = [chain EXCEPT ![a].stage = "created"]
          /\ UNCHANGED <<server, queue, forms, profile>>
      BY <1>4 DEF AccountCreated
    <2>5. \A b \in Accounts : /\ chain'[b].vc = chain[b].vc
                              /\ Asking(b)' <=> Asking(b)
                              /\ Pending(b)' <=> Pending(b)
      BY <1>1, <2>1, <2>4 DEF Asking, Pending, Chains, NoChain
    <2>6. FormsInv'
      BY <1>2, <2>4, <2>5 DEF FormsInv
    <2>7. AskingInv' /\ SigningInv' /\ ScreensInv'
      BY <1>2, <2>3, <2>5 DEF AskingInv, SigningInv, ScreensInv
    <2>8. ProfileInv'
      BY <1>2, <2>1, <2>3, <2>4 DEF ProfileInv, NoProfile
    <2>9. StoredInv' /\ QueuedInv' /\ UpdatesOfTheirUser'
      BY <2>4 DEF ApartInv, StoredInv, QueuedInv, UpdatesOfTheirUser, Is
    <2> QED
      BY <2>6, <2>7, <2>8, <2>9 DEF ApartInv
  <1>5. CASE CreateFailed(a)
    BY <1>1, <1>5, ChainApart DEF CreateFailed, Pending, Asking, NoChain
  <1>6. CASE CreateCompleted(a)
    <2>1. CASE ~forms[chain[a].vc].picture
      BY <1>6, <2>1, TrapApart DEF CreateCompleted
    <2>2. CASE forms[chain[a].vc].picture
      <3>1. Asking(a) /\ Pending(a)
        BY <1>6 DEF CreateCompleted, Asking, Pending
      <3>2. \A b \in Accounts \ {a} : ~Asking(b)
        BY <3>1, OneAsked
      <3>3. \/ ui' = ui
            \/ /\ ui' = [ui EXCEPT !.alert = "signedUp"]
               /\ ui.open = {"signup"} /\ ~ui.google /\ ui.signing = Absent
        BY <1>2, <1>6, <2>2, <3>1 DEF CreateCompleted, AskingInv
      <3>4. /\ \A b \in Accounts \ {a} : chain'[b] = chain[b]
            /\ chain'[a].stage = "none" \/ chain'[a].vc = chain[a].vc
            /\ chain'[a].stage \in {"none", "put"}
        BY <1>1, <1>6, <2>2 DEF CreateCompleted, NoChain, Chains
      <3>5. UNCHANGED <<current, server, queue, forms, profile>>
        BY <1>6, <2>2 DEF CreateCompleted
      <3> QED
        BY <3>1, <3>2, <3>3, <3>4, <3>5, ChainApart DEF Asking
    <2> QED
      BY <2>1, <2>2
  <1>7. CASE \E ok \in BOOLEAN : PhotoPut(a, ok)
    <2>1. PICK ok \in BOOLEAN : PhotoPut(a, ok)
      BY <1>7
    <2>2. /\ \A b \in Accounts \ {a} : chain'[b] = chain[b]
          /\ chain'[a].stage = "none" \/ chain'[a].vc = chain[a].vc
          /\ chain'[a].stage \in {"none", "url"}
      BY <1>1, <2>1 DEF PhotoPut, NoChain, Chains
    <2>3. Pending(a) /\ UNCHANGED <<current, server, queue, forms, profile, ui>>
      BY <2>1 DEF PhotoPut, Pending
    <2> QED
      BY <2>2, <2>3, ChainApart DEF Asking
  <1>8. CASE ProfileAdded(a)
    <2> DEFINE form == forms[chain[a].vc]
               patch == Data(a, form.email, form.name, <<a, "signup">>)
               w == Write(<<a, "signup">>, patch)
    <2>1. Pending(a) /\ form.email = a
      BY <1>2, <1>8 DEF ProfileAdded, Pending, FormsInv
    <2>2. Is(patch, a)
      BY <2>1 DEF Is, Data, Fields
    <2> HIDE DEF patch
    <2>3. w.doc[1] = a /\ w.doc[2] # "own" /\ Is(w.patch, w.doc[1])
      BY <2>2 DEF Write
    <2>4. /\ queue' = [queue EXCEPT ![current] = Append(queue[current], w)]
          /\ forms' = [forms EXCEPT ![chain[a].vc] =
                          [EmptyForm EXCEPT !.picture = FALSE]]
          /\ chain' = [chain EXCEPT ![a] = NoChain]
          /\ UNCHANGED <<current, server, ui, profile>>
      BY <1>8 DEF ProfileAdded, patch
    <2> HIDE DEF w
    <2>5. QueuedInv' /\ UpdatesOfTheirUser'
      BY <2>3, <2>4, QueuedApart DEF PhotoInv, ApartInv
    <2>6. FormsInv'
      <3> SUFFICES ASSUME NEW b \in Accounts, Pending(b)'
                   PROVE  forms'[chain'[b].vc].email = b
        BY DEF FormsInv
      <3>1. b # a /\ chain'[b] = chain[b] /\ Pending(b)
        BY <1>1, <2>4 DEF Pending, NoChain
      <3>2. chain[b].vc \in 1..MaxForms /\ forms[chain[b].vc].email = b
        BY <1>1, <1>2, <3>1, PendingForm DEF FormsInv
      <3>3. chain[b].vc # chain[a].vc
        BY <2>1, <3>1, <3>2
      <3> QED
        BY <1>1, <2>4, <3>1, <3>2, <3>3
    <2>7. AskingInv' /\ SigningInv' /\ ScreensInv' /\ ProfileInv'
      BY <1>1, <1>2, <2>4
         DEF AskingInv, Asking, SigningInv, ScreensInv, ProfileInv, NoChain
    <2>8. StoredInv'
      BY <2>4 DEF ApartInv, StoredInv, Is
    <2> QED
      BY <2>5, <2>6, <2>7, <2>8 DEF ApartInv
  <1>9. CASE UrlFailed(a)
    BY <1>9, TrapApart DEF UrlFailed
  <1> QED
    BY <1>3, <1>4, <1>5, <1>6, <1>7, <1>8, <1>9 DEF SignUpStep

-----------------------------------------------------------------------------
(* The profile screen.                                                     *)

(* What a query for a user finds is that user's data, or is missing.       *)
LEMMA FoundIsTheirs ==
  ASSUME PhotoInv, ApartInv, NEW a \in Accounts, NEW d \in Found(a)
  PROVE  /\ View[d]["email"] \in {Absent, a}
         /\ View[d]["image"] # Absent => View[d]["image"][1] = a
  <1> DEFINE q == queue[current]
  <1>1. current \in Owners /\ q \in Seq(Writes) /\ d \in Docs
        /\ View[d]["user"] = a /\ server \in [Docs -> [Fields -> Values]]
    BY QueueOfCurrent DEF PhotoInv, Found, TypeOK
  <1>2. \A f \in Fields : View[d][f] = FieldView(server, q, d, f)
    BY <1>1 DEF View, LocalView
  <1>3. \A i \in DOMAIN q : q[i].doc = d => Is(q[i].patch, d[1])
    BY <1>1 DEF ApartInv, QueuedInv
  <1>4. server[d] = Unknown \/ Is(server[d], d[1])
    BY <1>1 DEF ApartInv, StoredInv
  <1> HIDE DEF q
  <1>5. ASSUME NEW f \in Fields
        PROVE  \/ View[d][f] = server[d][f]
               \/ \E i \in DOMAIN q :
                     q[i].doc = d /\ View[d][f] = q[i].patch[f]
    BY <1>1, <1>2, FieldViewSource DEF LastTouch, Touches
  <1>6. {"user", "email", "image"} \subseteq Fields
        /\ \A f \in Fields : Unknown[f] = Absent
    BY DEF Fields, Unknown, Missing
  <1>7. View[d]["user"] \in {Absent, d[1]} /\ View[d]["email"] \in {Absent, d[1]}
        /\ (View[d]["image"] # Absent => View[d]["image"][1] = d[1])
    BY <1>3, <1>4, <1>5, <1>6 DEF Is
  <1> QED
    BY <1>1, <1>7, NobodyIsNoAccount

LEMMA ImageOfAccount ==
  ASSUME PhotoInv, profile.image # Absent
  PROVE  profile.image[1] \in Accounts
  <1>1. profile.image \in Docs
    BY ProfileNow DEF PhotoInv, TypeOK
  <1> QED
    BY <1>1 DEF Docs

LEMMA ProfileScreenApart ==
  ASSUME PhotoInv, ApartInv, ProfileStep
  PROVE  ApartInv'
  <1>1. TypeOK /\ ui \in UIs /\ profile \in ProfileType
        /\ current \in Accounts \cup {Absent}
    BY ProfileNow DEF PhotoInv, TypeOK
  <1>2. AskingInv /\ SigningInv /\ ScreensInv /\ ProfileInv
    BY DEF ApartInv
  <1>3. CASE OpenProfile
    <2>1. "home" \in ui.open /\ "profile" \notin ui.open
          /\ ui.alert = "none" /\ ~ui.google
      BY <1>1, <1>3, TopFacts DEF OpenProfile, Touchable
    <2>2. /\ ui' = [ui EXCEPT !.open = ui.open \cup {"profile"}, !.told = TRUE]
          /\ profile' = NoProfile
          /\ UNCHANGED <<current, server, queue, chain, forms>>
      BY <1>3 DEF OpenProfile
    <2>3. /\ ui'.open = ui.open \cup {"profile"} /\ ui'.alert = ui.alert
          /\ ui'.google = ui.google /\ ui'.signing = ui.signing
          /\ ui'.root = ui.root /\ ui'.loads = ui.loads
          /\ ui'.pick = ui.pick /\ ui'.path = ui.path /\ ui'.form = ui.form
      BY <1>1, <2>2 DEF UIs
    <2>4. AskingInv' /\ SigningInv' /\ ScreensInv'
      BY <1>2, <2>1, <2>2, <2>3
         DEF AskingInv, Asking, SigningInv, ScreensInv
    <2>5. ProfileInv'
      BY <1>2, <2>1, <2>2, <2>3 DEF ProfileInv, NoProfile
    <2> QED
      BY <2>2, <2>4, <2>5, ScreenApart
  <1>4. CASE AuthStateDidChange
    <2>1. "profile" \in ui.open
      BY <1>2, <1>4 DEF AuthStateDidChange, ProfileInv
    <2>2. PICK loads \in SUBSET Accounts :
             /\ ui' = [ui EXCEPT !.told = FALSE, !.loads = loads]
             /\ \/ loads = ui.loads /\ profile' = profile
                \/ /\ loads = ui.loads \cup {current} /\ current # Absent
                   /\ profile' = [profile EXCEPT !.userId = current]
      <3>1. CASE current = Absent
        <4>1. ui' = [ui EXCEPT !.told = FALSE, !.loads = ui.loads]
          BY <1>1, <1>4, <3>1 DEF AuthStateDidChange, UIs
        <4> QED
          BY <1>1, <1>4, <3>1, <4>1 DEF AuthStateDidChange, UIs
      <3>2. CASE current # Absent
        BY <1>1, <1>4, <3>2 DEF AuthStateDidChange, UIs
      <3> QED
        BY <3>1, <3>2
    <2>3. UNCHANGED <<current, server, queue, chain, forms>>
      BY <1>4 DEF AuthStateDidChange
    <2>4. /\ ui'.open = ui.open /\ ui'.alert = ui.alert
          /\ ui'.google = ui.google /\ ui'.signing = ui.signing
          /\ ui'.root = ui.root /\ ui'.loads = loads
          /\ ui'.pick = ui.pick /\ ui'.path = ui.path /\ ui'.form = ui.form
      BY <1>1, <2>2 DEF UIs
    <2>5. AskingInv' /\ SigningInv' /\ ScreensInv'
      BY <1>2, <2>3, <2>4
         DEF AskingInv, Asking, SigningInv, ScreensInv
    <2>6. ProfileInv'
      <3>1. CASE loads = ui.loads /\ profile' = profile
        BY <1>2, <2>1, <2>3, <2>4, <3>1 DEF ProfileInv
      <3>2. CASE /\ loads = ui.loads \cup {current} /\ current # Absent
                 /\ profile' = [profile EXCEPT !.userId = current]
        <4>1. /\ profile'.userId = current /\ profile'.email = profile.email
              /\ profile'.image = profile.image
          BY <1>1, <3>2 DEF ProfileType
        <4>2. ui.loads \subseteq {current}
          BY <1>1, <1>2, NobodyIsNoAccount DEF ProfileInv, UIs
        <4>3. profile.image # Absent => profile.image[1] = current
          BY <1>2, ImageOfAccount, NobodyIsNoAccount DEF ProfileInv
        <4> QED
          BY <1>2, <2>1, <2>3, <2>4, <3>2, <4>1, <4>2, <4>3 DEF ProfileInv
      <3> QED
        BY <2>2, <3>1, <3>2
    <2> QED
      BY <2>3, <2>5, <2>6, ScreenApart
  <1>5. ASSUME NEW a \in Accounts, getUserData(a) \/ GetFailed(a)
        PROVE  ApartInv'
    <2>1. a \in ui.loads /\ "profile" \in ui.open /\ profile.userId = a
      BY <1>2, <1>5 DEF getUserData, GetFailed, ProfileInv
    <2>2. /\ ui' = [ui EXCEPT !.loads = ui.loads \ {a}]
          /\ UNCHANGED <<current, server, queue, chain, forms>>
      BY <1>5 DEF getUserData, GetFailed
    <2>3. /\ ui'.open = ui.open /\ ui'.alert = ui.alert
          /\ ui'.google = ui.google /\ ui'.signing = ui.signing
          /\ ui'.root = ui.root /\ ui'.loads = ui.loads \ {a}
          /\ ui'.pick = ui.pick /\ ui'.path = ui.path /\ ui'.form = ui.form
      BY <1>1, <2>2 DEF UIs
    <2>4. AskingInv' /\ SigningInv' /\ ScreensInv'
      BY <1>2, <2>2, <2>3
         DEF AskingInv, Asking, SigningInv, ScreensInv
    <2>5. \/ profile' = profile
          \/ \E d \in Found(a) :
                profile' = [profile EXCEPT !.email = View[d]["email"],
                                           !.name = View[d]["name"],
                                           !.image = View[d]["image"]]
      BY <1>5 DEF getUserData, GetFailed, Shown
    <2>6. /\ profile'.userId = a
          /\ profile'.email \in {Absent, a}
          /\ profile'.image # Absent => profile'.image[1] = a
      <3>1. CASE profile' = profile
        BY <1>2, <2>1, <3>1 DEF ProfileInv
      <3>2. ASSUME NEW d \in Found(a),
                   profile' = [profile EXCEPT !.email = View[d]["email"],
                                              !.name = View[d]["name"],
                                              !.image = View[d]["image"]]
            PROVE  /\ profile'.userId = a
                   /\ profile'.email \in {Absent, a}
                   /\ profile'.image # Absent => profile'.image[1] = a
        <4>1. /\ profile'.userId = a /\ profile'.email = View[d]["email"]
              /\ profile'.image = View[d]["image"]
          BY <1>1, <2>1, <3>2 DEF ProfileType
        <4> QED
          BY <4>1, FoundIsTheirs
      <3> QED
        BY <2>5, <3>1, <3>2
    <2>7. ProfileInv'
      BY <1>2, <2>1, <2>2, <2>3, <2>6 DEF ProfileInv
    <2> QED
      BY <2>2, <2>4, <2>7, ScreenApart
  <1>6. ASSUME NEW name \in Names, EditName(name)
        PROVE  ApartInv'
    <2>1. "profile" \in ui.open
      BY <1>1, <1>6, TopFacts DEF EditName, Touchable
    <2>2. /\ profile'.userId = profile.userId /\ profile'.email = profile.email
          /\ profile'.image = profile.image
          /\ UNCHANGED <<current, server, queue, chain, forms, ui>>
      BY <1>1, <1>6 DEF EditName, ProfileType
    <2>3. AskingInv' /\ SigningInv' /\ ScreensInv' /\ ProfileInv'
      BY <1>2, <2>1, <2>2
         DEF AskingInv, Asking, SigningInv, ScreensInv, ProfileInv
    <2> QED
      BY <2>2, <2>3, ScreenApart
  <1>7. ASSUME \/ ProfilePhotoPicked
               \/ \E ok \in BOOLEAN : ProfilePhotoPut(ok) \/ ProfilePhotoUrl(ok)
        PROVE  ApartInv'
    <2>1. PICK pick \in {"none", "put", "url"},
               path \in {Absent, profile.userId} :
             /\ ui' = [ui EXCEPT !.pick = pick, !.path = path]
             /\ pick # "none" => "profile" \in ui.open
      <3>1. CASE ProfilePhotoPicked
        BY <1>1, <3>1, TopFacts DEF ProfilePhotoPicked, Touchable
      <3>2. CASE \E ok \in BOOLEAN : ProfilePhotoPut(ok)
        BY <1>2, <3>2 DEF ProfilePhotoPut, ProfileInv
      <3>3. CASE \E ok \in BOOLEAN : ProfilePhotoUrl(ok)
        BY <3>3 DEF ProfilePhotoUrl
      <3> QED
        BY <1>7, <3>1, <3>2, <3>3
    <2>2. /\ ui'.open = ui.open /\ ui'.alert = ui.alert
          /\ ui'.google = ui.google /\ ui'.signing = ui.signing
          /\ ui'.root = ui.root /\ ui'.loads = ui.loads
          /\ ui'.told = ui.told /\ ui'.form = ui.form
          /\ ui'.pick = pick /\ ui'.path = path
      BY <1>1, <2>1 DEF UIs
    <2>3. UNCHANGED <<current, server, queue, chain, forms>>
      BY <1>7 DEF ProfilePhotoPicked, ProfilePhotoPut, ProfilePhotoUrl
    <2>4. \/ profile' = profile
          \/ /\ "profile" \in ui.open
             /\ profile'.userId = profile.userId
             /\ profile'.email = profile.email
             /\ profile'.image[1] = profile.userId
      <3>1. CASE ProfilePhotoPicked \/ \E ok \in BOOLEAN : ProfilePhotoPut(ok)
        BY <3>1 DEF ProfilePhotoPicked, ProfilePhotoPut
      <3>2. CASE \E ok \in BOOLEAN : ProfilePhotoUrl(ok)
        <4>1. "profile" \in ui.open /\ ui.path \in {Absent, profile.userId}
          BY <1>2, <3>2 DEF ProfilePhotoUrl, ProfileInv
        <4>2. \/ profile' = profile
              \/ /\ Photo(ui.path) # {}
                 /\ profile' = [profile EXCEPT !.image = <<ui.path, "own">>]
          BY <3>2 DEF ProfilePhotoUrl
        <4> QED
          BY <1>1, <4>1, <4>2 DEF Photo, ProfileType
      <3> QED
        BY <1>7, <3>1, <3>2
    <2>5. AskingInv' /\ SigningInv' /\ ScreensInv'
      BY <1>2, <2>2, <2>3
         DEF AskingInv, Asking, SigningInv, ScreensInv
    <2>6. ProfileInv'
      BY <1>2, <2>1, <2>2, <2>3, <2>4 DEF ProfileInv
    <2> QED
      BY <2>3, <2>5, <2>6, ScreenApart
  <1>8. CASE updateUserData
    <2>1. CASE Absent \in {profile.userId, profile.email, profile.image}
      BY <1>8, <2>1, TrapApart DEF updateUserData
    <2>2. CASE Absent \notin {profile.userId, profile.email, profile.image}
      <3> DEFINE patch == Data(profile.userId, profile.email, profile.name,
                               profile.image)
                 w == Write(<<profile.userId, "own">>, patch)
      <3>1. /\ profile.userId = current /\ profile.email = current
            /\ profile.image[1] = current
        BY <1>2, <2>2 DEF ProfileInv
      <3>2. Is(patch, current)
        BY <3>1 DEF Is, Data, Fields
      <3> HIDE DEF patch
      <3>3. Is(w.patch, w.doc[1]) /\ w.doc[1] = current
        BY <3>1, <3>2 DEF Write
      <3>4. /\ queue' = [queue EXCEPT ![current] = Append(queue[current], w)]
            /\ ui' = [ui EXCEPT !.saving[current] = ui.saving[current] + 1]
            /\ UNCHANGED <<current, server, chain, forms, profile>>
        BY <1>8, <2>2 DEF updateUserData, patch
      <3> HIDE DEF w
      <3>5. QueuedInv' /\ UpdatesOfTheirUser'
        BY <1>1, <3>3, <3>4, QueuedApart DEF ApartInv
      <3>6. /\ ui'.open = ui.open /\ ui'.alert = ui.alert
            /\ ui'.google = ui.google /\ ui'.signing = ui.signing
            /\ ui'.root = ui.root /\ ui'.loads = ui.loads
            /\ ui'.told = ui.told /\ ui'.form = ui.form
            /\ ui'.pick = ui.pick /\ ui'.path = ui.path
        BY <1>1, <3>4 DEF UIs
      <3>7. AskingInv' /\ SigningInv' /\ ScreensInv' /\ ProfileInv'
        BY <1>2, <3>4, <3>6
           DEF AskingInv, Asking, SigningInv, ScreensInv, ProfileInv
      <3>8. FormsInv' /\ StoredInv'
        BY <3>4 DEF ApartInv, FormsInv, Pending, StoredInv, Is
      <3> QED
        BY <3>5, <3>7, <3>8 DEF ApartInv
    <2> QED
      BY <2>1, <2>2
  <1> QED
    BY <1>3, <1>4, <1>5, <1>6, <1>7, <1>8 DEF ProfileStep

-----------------------------------------------------------------------------
(* The write stream.                                                       *)

(* A document is replaced, not merged: a queued one has every field.       *)
LEMMA WholeDocument ==
  ASSUME NEW doc \in [Fields -> Values], NEW patch \in [Fields -> Values]
  PROVE  Apply(doc, patch) = patch
  <1>1. Keep \notin Values
    BY ProfileAssumption, MarkersDiffer DEF Values
  <1>2. \A f \in Fields : patch[f] # Keep
    BY <1>1
  <1>3. DOMAIN doc = Fields /\ patch = [f \in Fields |-> patch[f]]
    OBVIOUS
  <1> QED
    BY <1>2, <1>3 DEF Apply

LEMMA StreamApart ==
  ASSUME PhotoInv, ApartInv, WriteDone \/ WriteRefused
  PROVE  ApartInv'
  <1> DEFINE w == Head(queue[current])
  <1>1. /\ queue \in [Owners -> Seq(Writes)] /\ current \in Owners
        /\ queue[current] \in Seq(Writes) /\ queue[current] # <<>>
        /\ queue' = [queue EXCEPT ![current] = Tail(queue[current])]
    BY QueueOfCurrent DEF PhotoInv, TypeOK, WriteDone, WriteRefused, Pipeline
  <1>2. TypeOK /\ ui \in UIs /\ server \in [Docs -> [Fields -> Values]]
    BY DEF PhotoInv, TypeOK
  <1>3. AskingInv /\ SigningInv /\ ScreensInv /\ ProfileInv
    BY DEF ApartInv
  <1>4. w \in Writes /\ w = queue[current][1] /\ 1 \in DOMAIN queue[current]
    BY <1>1
  <1>5. /\ w.patch \in [Fields -> Values] /\ w.doc \in Docs
        /\ Is(w.patch, w.doc[1])
    BY <1>1, <1>4 DEF Writes, ApartInv, QueuedInv
  <1> HIDE DEF w
  <1>6. UNCHANGED <<current, chain, forms, profile>>
    BY DEF WriteDone, WriteRefused
  <1>7. /\ ui'.open = ui.open /\ ui'.google = ui.google
        /\ ui'.signing = ui.signing /\ ui'.root = ui.root
        /\ ui'.loads = ui.loads /\ ui'.told = ui.told /\ ui'.form = ui.form
        /\ ui'.pick = ui.pick /\ ui'.path = ui.path
        /\ \/ ui'.alert = ui.alert
           \/ ui'.alert \in {"success", "error"} /\ "profile" \in ui.open
    <2>1. PICK alert \in {"success", "error"} : Reported(alert)
      BY DEF WriteDone, WriteRefused
    <2>2. CASE ui' = ui
      BY <2>2
    <2>3. CASE ui' # ui
      <3>1. ui' = [ui EXCEPT !.saving[current] = ui.saving[current] - 1,
                             !.alert = IF Touchable("profile") THEN alert
                                       ELSE ui.alert]
        BY <2>1, <2>3 DEF Reported
      <3>2. Touchable("profile") => "profile" \in ui.open
        BY <1>2, TopFacts DEF Touchable
      <3> QED
        BY <1>2, <3>1, <3>2 DEF UIs
    <2> QED
      BY <2>2, <2>3
  <1>8. AskingInv' /\ SigningInv' /\ ScreensInv' /\ ProfileInv'
    BY <1>3, <1>6, <1>7
       DEF AskingInv, Asking, SigningInv, ScreensInv, ProfileInv
  <1>9. FormsInv'
    BY <1>6 DEF ApartInv, FormsInv, Pending
  <1>10. StoredInv'
    <2> SUFFICES ASSUME NEW d \in Docs, server'[d] # Unknown
                 PROVE  Is(server'[d], d[1])
      BY DEF StoredInv, Is
    <2>1. \/ server'[d] = server[d]
          \/ d = w.doc /\ server'[d] = w.patch
      <3>1. CASE server' = server
        BY <3>1
      <3>2. CASE server' = Commit(server, w)
        <4>1. server'[d] = IF d = w.doc THEN Apply(server[d], w.patch)
                           ELSE server[d]
          BY <1>2, <1>5, <3>2 DEF Commit
        <4> QED
          BY <1>2, <1>5, <4>1, WholeDocument
      <3> QED
        BY <3>1, <3>2 DEF WriteDone, WriteRefused, Pipeline, w
    <2> QED
      BY <1>5, <2>1 DEF ApartInv, StoredInv
  <1>11. QueuedInv' /\ UpdatesOfTheirUser'
    <2>1. ASSUME NEW u \in Owners, NEW i \in DOMAIN queue'[u]
          PROVE  \E j \in DOMAIN queue[u] : queue'[u][i] = queue[u][j]
      <3>1. \A k \in DOMAIN Tail(queue[current]) :
               /\ k + 1 \in DOMAIN queue[current]
               /\ Tail(queue[current])[k] = queue[current][k + 1]
        BY <1>1
      <3> QED
        BY <1>1, <2>1, <3>1
    <2>2. QueuedInv'
      BY <2>1 DEF ApartInv, QueuedInv, Is
    <2>3. UpdatesOfTheirUser'
      BY <2>1 DEF ApartInv, UpdatesOfTheirUser
    <2> QED
      BY <2>2, <2>3
  <1> QED
    BY <1>8, <1>9, <1>10, <1>11 DEF ApartInv

-----------------------------------------------------------------------------
LEMMA ApartInit == Init => ApartInv
  <1> SUFFICES ASSUME Init PROVE ApartInv
    OBVIOUS
  <1>1. \A a \in Accounts : chain[a].stage = "none"
    BY DEF Init, NoChain
  <1>2. FormsInv /\ AskingInv
    BY <1>1 DEF FormsInv, AskingInv, Asking, Pending
  <1>3. SigningInv /\ ScreensInv
    BY DEF Init, Started, SigningInv, ScreensInv
  <1>4. ProfileInv
    BY DEF Init, Started, ProfileInv, NoProfile
  <1>5. StoredInv
    BY DEF Init, StoredInv
  <1>6. \A u \in Owners : DOMAIN queue[u] = {}
    BY DEF Init
  <1>7. QueuedInv /\ UpdatesOfTheirUser
    BY <1>6 DEF QueuedInv, UpdatesOfTheirUser
  <1> QED
    BY <1>2, <1>3, <1>4, <1>5, <1>7 DEF ApartInv

LEMMA ApartNext == Waits /\ PhotoInv /\ ApartInv /\ [Next]_vars => ApartInv'
  <1> SUFFICES ASSUME Waits, PhotoInv, ApartInv, [Next]_vars PROVE ApartInv'
    OBVIOUS
  <1>1. CASE UNCHANGED vars
    BY <1>1 DEF vars, ApartInv, FormsInv, Pending, AskingInv, Asking,
                SigningInv, ScreensInv, ProfileInv, StoredInv, QueuedInv,
                UpdatesOfTheirUser, Is
  <1>2. CASE Kill \/ GoogleFailed \/ OpenPostings
    BY <1>2, TrapApart DEF Kill, GoogleFailed, OpenPostings
  <1>3. CASE Back \/ AlertOk
    BY <1>3, PopApart
  <1>4. CASE \E a \in Accounts : SignUpStep(a)
    BY <1>4, SignUpApart
  <1> QED
    BY <1>1, <1>2, <1>3, <1>4, SessionApart, FormApart, ProfileScreenApart,
       StreamApart DEF Next

(* What is written, and what is on the profile screen.                     *)
LEMMA ApartImplies == PhotoInv /\ ApartInv => ProfilesApart /\ UpdatesOfTheirUser
  <1> SUFFICES ASSUME PhotoInv, ApartInv
               PROVE  ProfilesApart /\ UpdatesOfTheirUser
    OBVIOUS
  <1>1. \A data \in Written : data["email"] = data["user"]
                             /\ data["image"][1] = data["user"]
    BY DEF Written, ApartInv, StoredInv, QueuedInv, Is
  <1> QED
    BY <1>1 DEF ApartInv, ProfileInv, ProfilesApart

(* For any accounts, and whatever fails: if the user waits for Auth and    *)
(* leaves the form alone meanwhile, a document of users, stored or queued, *)
(* holds the address and the photo of one account, and the profile screen  *)
(* shows one account (getUserData, updateUserData, uploadProfileImage).    *)
THEOREM ProfilesAreApart == Waits /\ Spec => []ProfilesApart
  <1>1. Spec => []PhotoInv
    BY InitHolds, NextHolds, PTL DEF Spec
  <1>2. CASE ~Waits
    BY <1>2
  <1>3. CASE Waits
    <2>1. PhotoInv /\ ApartInv /\ [Next]_vars => ApartInv'
      BY <1>3, ApartNext
    <2>2. PhotoInv /\ ApartInv => ProfilesApart
      BY ApartImplies
    <2> QED
      BY <1>1, <2>1, <2>2, ApartInit, PTL DEF Spec
  <1> QED
    BY <1>2, <1>3

(* For any accounts, and whatever fails: such a user's updates are queued  *)
(* for the account they are about, so the client sends none of them while  *)
(* somebody else, or nobody, is signed in (updateUserData names the        *)
(* document after userId, the SDK queues it for the current user).         *)
THEOREM UpdatesAreTheirUsers == Waits /\ Spec => []UpdatesOfTheirUser
  <1>1. Spec => []PhotoInv
    BY InitHolds, NextHolds, PTL DEF Spec
  <1>2. CASE ~Waits
    BY <1>2
  <1>3. CASE Waits
    <2>1. PhotoInv /\ ApartInv /\ [Next]_vars => ApartInv'
      BY <1>3, ApartNext
    <2>2. PhotoInv /\ ApartInv => UpdatesOfTheirUser
      BY ApartImplies
    <2> QED
      BY <1>1, <2>1, <2>2, ApartInit, PTL DEF Spec
  <1> QED
    BY <1>2, <1>3
=============================================================================
