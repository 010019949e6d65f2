------------------------------- MODULE Profile -------------------------------
(***************************************************************************)
(* Accounts and their profiles on one device: ViewController (log in),     *)
(* SignUpViewController, ProfileViewController, the log out of the home    *)
(* tab, the Google callback of AppDelegate, and the documents of the       *)
(* Firestore collection "users".                                           *)
(*                                                                         *)
(* Signing up creates the account, signs it in, uploads a photo and only   *)
(* then adds a document, from what the text fields hold at that time.  The *)
(* profile screen reads the documents with the user's userId and writes a  *)
(* document of its own, named after the user.  An account may so have two  *)
(* documents, and a read takes the one that comes last in the order of the *)
(* document ids.                                                           *)
(***************************************************************************)
EXTENDS FirestoreOps, FiniteSets

CONSTANTS
    Accounts,   \* e-mail addresses; the uid of an account goes with it
    Names,      \* contents of the name and phone fields
    Blank,      \* the empty text
    LastDoc,    \* which of its two documents comes last, for each account
    Habits,     \* what the user ever does
    Faults,     \* failures that may happen
    MaxForms,   \* sign-up screens alive at once (a bound)
    MaxQueue    \* unacknowledged writes a tap may add to (a bound)

(* A document is named by its account and by who wrote it.  The photo      *)
(* user/<uid> goes with the first one, user/Optional(<uid>).png with the   *)
(* second.                                                                 *)
Slots == {"signup", "own"}
Docs == Accounts \X Slots

AllHabits == {"leave", "retype", "photo", "rename", "google"}
AllFaults == {"kill", "auth", "encode", "put", "url", "fetch", "refuse"}

ASSUME ProfileAssumption ==
    /\ {Absent, Keep, Blank} \cap (Accounts \cup Names \cup Docs) = {}
    /\ Blank \notin {Absent, Keep}
    /\ LastDoc \in [Accounts -> Slots]
    /\ Habits \subseteq AllHabits /\ Faults \subseteq AllFaults
    /\ MaxForms \in Nat /\ MaxQueue \in Nat

VARIABLES
    accounts,  \* the accounts Auth knows
    current,   \* Auth.auth().currentUser, kept in the keychain
    server,    \* the collection as the backend holds it
    queue,     \* each user's writes not acknowledged yet, on disk
    photos,    \* the objects under user/ in Storage
    chain,     \* the sign-up under way for each account
    forms,     \* the fields of the sign-up screens alive
    ui,        \* the process: screens, alert, requests under way
    profile    \* the fields of the profile screen

vars == <<accounts, current, server, queue, photos, chain, forms, ui, profile>>

Fields == {"user", "email", "name", "image"}
Unknown == Missing(Fields)
Data(user, email, name, image) ==
    [f \in Fields |-> CASE f = "user" -> user [] f = "email" -> email
                        [] f = "name" -> name [] f = "image" -> image]
Values == Accounts \cup Names \cup Docs \cup {Absent, Blank}
Owners == Accounts \cup {Absent}
Write(d, patch) == [doc |-> d, patch |-> patch]
Writes == [doc : Docs, patch : [Fields -> Values]]

(* The stage of a chain is what it waits for: the answer to createUser,    *)
(* its completion, putData, downloadURL.  vc is the screen it belongs to.  *)
NoChain == [stage |-> "none", vc |-> 0]
Chains == [stage : {"create", "created", "put", "url"}, vc : 1..MaxForms]
          \cup {NoChain}

EmptyForm == [name |-> Blank, email |-> Blank, picture |-> TRUE]
Forms == [name : Names \cup {Blank}, email : Accounts \cup {Blank},
          picture : BOOLEAN]

(* open: the controllers above the log-in screen; the one shown is the     *)
(* last of signup, home, profile.  root: the window shows the navigation   *)
(* controller with the log-in screen, or, after a Google sign-in, the tabs *)
(* alone.  google: the sheet of Google is over the log-in screen.  form:   *)
(* the number of the sign-up screen.  told: the auth listener of the       *)
(* profile screen has a call due.  saving: how many of each user's queued  *)
(* writes are this profile screen's.                                       *)
UIs == [up : BOOLEAN, open : SUBSET {"signup", "home", "profile"},
        root : {"navigation", "tabs"}, google : BOOLEAN,
        alert : {"none", "signedUp", "success", "error"},
        form : 0..MaxForms, signing : Accounts \cup {Absent},
        told : BOOLEAN, loads : SUBSET Accounts, saving : [Owners -> Nat],
        pick : {"none", "put", "orphan", "url"},
        path : Accounts \cup {Absent}]

NoneSaving == [u \in Owners |-> 0]
Started == [up |-> TRUE, open |-> {}, root |-> "navigation",
            google |-> FALSE, alert |-> "none", form |-> 0,
            signing |-> Absent, told |-> FALSE, loads |-> {},
            saving |-> NoneSaving, pick |-> "none", path |-> Absent]

NoProfile == [userId |-> Absent, email |-> Absent, name |-> Blank,
              image |-> Absent]

Init ==
    /\ accounts = {} /\ current = Absent
    /\ server = [d \in Docs |-> Unknown]
    /\ queue = [u \in Owners |-> <<>>] /\ photos = {}
    /\ chain = [a \in Accounts |-> NoChain]
    /\ forms = [i \in 1..MaxForms |-> EmptyForm]
    /\ ui = [Started EXCEPT !.up = FALSE]
    /\ profile = NoProfile

(* The client sends, and reads through, the queue of the current user.     *)
View == LocalView(server, queue[current])

Top == IF "profile" \in ui.open THEN "profile"
       ELSE IF "home" \in ui.open THEN "home"
       ELSE IF "signup" \in ui.open THEN "signup" ELSE "login"
Touchable(scr) == ui.up /\ Top = scr /\ ui.alert = "none" /\ ~ui.google

Pending(a) == chain[a].stage # "none"
OnScreen(i) == i = ui.form

(* The process ends: a forced unwrap of nil, or a kill.                    *)
Trap ==
    /\ ui' = [Started EXCEPT !.up = FALSE]
    /\ forms' = [i \in 1..MaxForms |-> EmptyForm]
    /\ chain' = [a \in Accounts |-> NoChain]
    /\ profile' = NoProfile

Kill ==
    /\ "kill" \in Faults /\ ui.up
    /\ Trap
    /\ UNCHANGED <<accounts, current, server, queue, photos>>

Launch ==
    /\ ~ui.up
    /\ ui' = [ui EXCEPT !.up = TRUE]
    /\ UNCHANGED <<accounts, current, server, queue, photos, chain, forms,
                   profile>>

-----------------------------------------------------------------------------
(***************************************************************************)
(* Logging in and out.  The segue to the tabs is taken whatever screen is  *)
(* shown when the answer comes, but where the window no longer shows the   *)
(* log-in screen's navigation controller nobody sees it.                   *)
(***************************************************************************)
loginButton(a) ==
    /\ Touchable("login") /\ ui.signing = Absent
    /\ ui' = [ui EXCEPT !.signing = a]
    /\ UNCHANGED <<accounts, current, server, queue, photos, chain, forms,
                   profile>>

SignedIn ==
    /\ ui.signing \in accounts
    /\ current' = ui.signing
    /\ ui' = [ui EXCEPT !.signing = Absent, !.told = "profile" \in ui.open,
                        !.open = IF ui.root = "tabs" THEN @
                                 ELSE @ \cup {"home"}]
    /\ UNCHANGED <<accounts, server, queue, photos, chain, forms, profile>>

(* Mutant: the segue is taken although signIn has failed.                 *)
MutErrorIgnored ==
    /\ ui.signing # Absent
    /\ ui.signing \notin accounts \/ "auth" \in Faults
    /\ current' = ui.signing
    /\ ui' = [ui EXCEPT !.signing = Absent, !.open = @ \cup {"home"}]
    /\ UNCHANGED <<accounts, server, queue, photos, chain, forms, profile>>

(* No such account, a wrong password, or no answer.                        *)
SignInFailed ==
    /\ ui.signing # Absent
    /\ ui.signing \notin accounts \/ "auth" \in Faults
    /\ ui' = [ui EXCEPT !.signing = Absent]
    /\ UNCHANGED <<accounts, current, server, queue, photos, chain, forms,
                   profile>>

(* The Google button, while the user waits for nothing else.               *)
googleButton ==
    /\ Touchable("login") /\ "google" \in Habits
    /\ "leave" \in Habits \/ ui.signing = Absent
    /\ ui' = [ui EXCEPT !.google = TRUE]
    /\ UNCHANGED <<accounts, current, server, queue, photos, chain, forms,
                   profile>>

(* sign(_:didSignInFor:withError:): the tabs become the root of the        *)
(* window.  Firebase is not told: the current user is whoever it was.      *)
GoogleSignedIn ==
    /\ ui.google
    /\ ui' = [ui EXCEPT !.google = FALSE, !.root = "tabs", !.open = {"home"},
                        !.alert = "none", !.form = 0]
    /\ UNCHANGED <<accounts, current, server, queue, photos, chain, forms,
                   profile>>

(* Cancelled or failed: user is nil, and its profile ends the app.         *)
GoogleFailed ==
    /\ ui.google
    /\ Trap
    /\ UNCHANGED <<accounts, current, server, queue, photos>>

(* The upload and the manage screen unwrap currentUser!.                   *)
OpenPostings ==
    /\ Touchable("home") /\ current = Absent
    /\ Trap
    /\ UNCHANGED <<accounts, current, server, queue, photos>>

(* signOut, then two calls of popViewController in a row: the second one   *)
(* may find the first one's transition under way and do nothing.  The tabs *)
(* of a Google sign-in have nothing below them and stay.                   *)
logOutPressed ==
    /\ Touchable("home")
    /\ current' = Absent
    /\ \E popped \in IF ui.root = "tabs" THEN {{}}
                    ELSE {{"home"}, {"home", "signup"}} :
          ui' = [ui EXCEPT !.open = @ \ popped,
                           !.form = IF "signup" \in popped THEN 0 ELSE @]
    /\ UNCHANGED <<accounts, server, queue, photos, chain, forms, profile>>

-----------------------------------------------------------------------------
(***************************************************************************)
(* Signing up.                                                             *)
(***************************************************************************)
OpenSignUp(i) ==
    /\ Touchable("login")
    /\ "leave" \in Habits \/ ui.signing = Absent
    /\ \A a \in Accounts : chain[a].vc # i
    /\ ui' = [ui EXCEPT !.open = @ \cup {"signup"}, !.form = i]
    /\ forms' = [forms EXCEPT ![i] = EmptyForm]
    /\ UNCHANGED <<accounts, current, server, queue, photos, chain, profile>>

(* The user fills in the form, or changes it.                              *)
FillForm(name, email) ==
    /\ Touchable("signup")
    /\ \/ "retype" \in Habits
       \/ \A a \in Accounts : Pending(a) => chain[a].vc # ui.form
    /\ forms' = [forms EXCEPT ![ui.form].name = name,
                              ![ui.form].email = email]
    /\ UNCHANGED <<accounts, current, server, queue, photos, chain, ui, profile>>

imagePicked ==
    /\ Touchable("signup") /\ "photo" \in Habits
    /\ forms' = [forms EXCEPT ![ui.form].picture = TRUE]
    /\ UNCHANGED <<accounts, current, server, queue, photos, chain, ui, profile>>

signUpButton(a) ==
    /\ Touchable("signup") /\ ~Pending(a)
    /\ forms[ui.form].email = a /\ forms[ui.form].name # Blank
    /\ chain' = [chain EXCEPT ![a] = [stage |-> "create", vc |-> ui.form]]
    /\ UNCHANGED <<accounts, current, server, queue, photos, forms, ui, profile>>

(* Auth creates the account and makes it the current user; the listeners   *)
(* are called on the main queue, and so is the completion.                 *)
AccountCreated(a) ==
    /\ chain[a].stage = "create" /\ a \notin accounts
    /\ accounts' = accounts \cup {a}
    /\ current' = a
    /\ ui' = [ui EXCEPT !.told = "profile" \in ui.open]
    /\ chain' = [chain EXCEPT ![a].stage = "created"]
    /\ UNCHANGED <<server, queue, photos, forms, profile>>

(* The address is in use or invalid, the password weak: an alert.          *)
CreateFailed(a) ==
    /\ chain[a].stage = "create"
    /\ a \in accounts \/ "auth" \in Faults
    /\ chain' = [chain EXCEPT ![a] = NoChain]
    /\ UNCHANGED <<accounts, current, server, queue, photos, forms, ui, profile>>

(* "Sign Up Sucessfull!", and uploadProfileImage(imageView.image!).        *)
CreateCompleted(a) ==
    /\ chain[a].stage = "created"
    /\ IF ~forms[chain[a].vc].picture THEN Trap
       ELSE /\ ui' = IF OnScreen(chain[a].vc) /\ Touchable("signup")
                     THEN [ui EXCEPT !.alert = "signedUp"] ELSE ui
            /\ \/ chain' = [chain EXCEPT ![a].stage = "put"]
               \/ "encode" \in Faults /\ chain' = [chain EXCEPT ![a] = NoChain]
            /\ UNCHANGED <<forms, profile>>
    /\ UNCHANGED <<accounts, current, server, queue, photos>>

(* Mutant: an upload that failed is taken for a good one.                 *)
MutPutUnchecked(a, ok) ==
    /\ chain[a].stage = "put"
    /\ ok \/ "put" \in Faults
    /\ photos' = IF ok THEN photos \cup {<<a, "signup">>} ELSE photos
    /\ chain' = [chain EXCEPT ![a].stage = "url"]
    /\ UNCHANGED <<accounts, current, server, queue, forms, ui, profile>>

PhotoPut(a, ok) ==
    /\ chain[a].stage = "put"
    /\ ok \/ "put" \in Faults
    /\ photos' = IF ok THEN photos \cup {<<a, "signup">>} ELSE photos
    /\ chain' = [chain EXCEPT ![a] = IF ok THEN [@ EXCEPT !.stage = "url"]
                                           ELSE NoChain]
    /\ UNCHANGED <<accounts, current, server, queue, forms, ui, profile>>

(* Mutant: the fields are cleared, and the document is not added.         *)
MutNotAdded(a) ==
    /\ chain[a].stage = "url"
    /\ forms' = [forms EXCEPT ![chain[a].vc] = [EmptyForm EXCEPT !.picture = FALSE]]
    /\ chain' = [chain EXCEPT ![a] = NoChain]
    /\ UNCHANGED <<accounts, current, server, queue, photos, ui, profile>>

(* addDocument takes the fields as they are now, and then clears them;     *)
(* UIImage(named: "person.fill") is nil, the asset is a system one.  The   *)
(* write goes to the queue of whoever is signed in by now.                 *)
ProfileAdded(a) ==
    LET form == forms[chain[a].vc]
    IN  /\ chain[a].stage = "url"
        /\ queue' = [queue EXCEPT ![current] = Append(@,
                Write(<<a, "signup">>,
                      Data(a, form.email, form.name, <<a, "signup">>)))]
        /\ forms' = [forms EXCEPT ![chain[a].vc] =
                        [EmptyForm EXCEPT !.picture = FALSE]]
        /\ chain' = [chain EXCEPT ![a] = NoChain]
        /\ UNCHANGED <<accounts, current, server, photos, ui, profile>>

UrlFailed(a) ==
    /\ "url" \in Faults
    /\ chain[a].stage = "url"
    /\ Trap
    /\ UNCHANGED <<accounts, current, server, queue, photos>>

(* popViewController takes away whatever screen is on top.  The closures   *)
(* of a profile screen that is gone have no effect, but for a photo that   *)
(* is being put.                                                           *)
Pop ==
    IF Top = "profile"
    THEN /\ ui' = [ui EXCEPT !.open = @ \ {"profile"}, !.alert = "none",
                             !.told = FALSE, !.loads = {},
                             !.saving = NoneSaving,
                             !.pick = IF @ \in {"put", "orphan"} THEN "orphan"
                                      ELSE "none"]
         /\ profile' = NoProfile
    ELSE /\ ui' = [ui EXCEPT !.open = @ \ {Top}, !.alert = "none",
                             !.form = IF Top = "signup" THEN 0 ELSE @]
         /\ UNCHANGED profile

Back ==
    /\ Touchable("signup") \/ Touchable("profile")
    /\ \/ "leave" \in Habits \/ Top = "profile"
       \/ \A a \in Accounts : chain[a].stage \notin {"create", "created"}
    /\ Pop
    /\ UNCHANGED <<accounts, current, server, queue, photos, chain, forms>>

(* The Ok of "Sign Up Sucessfull!", "Success" and "Error".                 *)
AlertOk ==
    /\ ui.alert # "none"
    /\ Pop
    /\ UNCHANGED <<accounts, current, server, queue, photos, chain, forms>>

-----------------------------------------------------------------------------
(***************************************************************************)
(* The profile screen.                                                     *)
(***************************************************************************)

(* viewWillAppear adds the listener, which is called a first time.         *)
OpenProfile ==
    /\ Touchable("home")
    /\ ui' = [ui EXCEPT !.open = @ \cup {"profile"}, !.told = TRUE]
    /\ profile' = NoProfile
    /\ UNCHANGED <<accounts, current, server, queue, photos, chain, forms>>

(* The listener: userId is the current user, and getUserData starts.       *)
AuthStateDidChange ==
    /\ ui.told
    /\ IF current = Absent
       THEN ui' = [ui EXCEPT !.told = FALSE] /\ UNCHANGED profile
       ELSE /\ ui' = [ui EXCEPT !.told = FALSE, !.loads = @ \cup {current}]
            /\ profile' = [profile EXCEPT !.userId = current]
    /\ UNCHANGED <<accounts, current, server, queue, photos, chain, forms>>

(* The documents a query for a user finds, and the one it leaves on the    *)
(* screen: the fields are set once per document, in the order of the ids.  *)
Found(a) == {d \in Docs : View[d]["user"] = a}
Shown(a) == IF <<a, LastDoc[a]>> \in Found(a) THEN <<a, LastDoc[a]>>
            ELSE CHOOSE d \in Found(a) : TRUE

(* Mutant: the user is taken from whatever document is found.             *)
MutUserFromDocument(a) ==
    /\ a \in ui.loads
    /\ ui' = [ui EXCEPT !.loads = @ \ {a}]
    /\ profile' =
          IF {d \in Docs : View[d] # Unknown} = {} THEN profile
          ELSE LET d == CHOOSE d \in Docs : View[d] # Unknown
               IN  [userId |-> View[d]["user"], email |-> View[d]["email"],
                    name |-> View[d]["name"], image |-> View[d]["image"]]
    /\ UNCHANGED <<accounts, current, server, queue, photos, chain, forms>>

(* Mutant: the query does not ask for the userId.                         *)
MutLoadsAnybody(a) ==
    /\ a \in ui.loads
    /\ ui' = [ui EXCEPT !.loads = @ \ {a}]
    /\ profile' =
          IF {d \in Docs : View[d] # Unknown} = {} THEN profile
          ELSE LET d == CHOOSE d \in Docs : View[d] # Unknown
               IN  [profile EXCEPT !.email = View[d]["email"],
                                   !.name = View[d]["name"],
                                   !.image = View[d]["image"]]
    /\ UNCHANGED <<accounts, current, server, queue, photos, chain, forms>>

getUserData(a) ==
    /\ a \in ui.loads
    /\ ui' = [ui EXCEPT !.loads = @ \ {a}]
    /\ profile' = IF Found(a) = {} THEN profile
                  ELSE LET data == View[Shown(a)]
                       IN  [profile EXCEPT !.email = data["email"],
                                           !.name = data["name"],
                                           !.image = data["image"]]
    /\ UNCHANGED <<accounts, current, server, queue, photos, chain, forms>>

GetFailed(a) ==
    /\ "fetch" \in Faults /\ a \in ui.loads
    /\ ui' = [ui EXCEPT !.loads = @ \ {a}]
    /\ UNCHANGED <<accounts, current, server, queue, photos, chain, forms,
                   profile>>

EditName(name) ==
    /\ Touchable("profile") /\ "rename" \in Habits
    /\ profile' = [profile EXCEPT !.name = name]
    /\ UNCHANGED <<accounts, current, server, queue, photos, chain, forms, ui>>

(* imagePickerController: the path is made of userId, nil included.        *)
ProfilePhotoPicked ==
    /\ Touchable("profile") /\ "photo" \in Habits /\ ui.pick = "none"
    /\ ui' = [ui EXCEPT !.pick = "put", !.path = profile.userId]
    /\ UNCHANGED <<accounts, current, server, queue, photos, chain, forms,
                   profile>>

Photo(a) == IF a = Absent THEN {} ELSE {<<a, "own">>}

(* downloadURL reads userId again.                                         *)
ProfilePhotoPut(ok) ==
    /\ ui.pick \in {"put", "orphan"}
    /\ ok \/ "put" \in Faults
    /\ photos' = IF ok THEN photos \cup Photo(ui.path) ELSE photos
    /\ ui' = IF ok /\ ui.pick = "put"
             THEN [ui EXCEPT !.pick = "url", !.path = profile.userId]
             ELSE [ui EXCEPT !.pick = "none", !.path = Absent]
    /\ UNCHANGED <<accounts, current, server, queue, chain, forms, profile>>

(* A url only for an object that is there; an error returns.               *)
ProfilePhotoUrl(ok) ==
    /\ ui.pick = "url"
    /\ ok \/ "url" \in Faults
    /\ ui' = [ui EXCEPT !.pick = "none", !.path = Absent]
    /\ profile' = IF ok /\ Photo(ui.path) \cap photos # {}
                  THEN [profile EXCEPT !.image = <<ui.path, "own">>]
                  ELSE profile
    /\ UNCHANGED <<accounts, current, server, queue, photos, chain, forms>>

(* userId!, email! and imageUrl!: nil ends the app.                        *)
updateUserData ==
    /\ Touchable("profile") /\ Len(queue[current]) < MaxQueue
    /\ IF Absent \in {profile.userId, profile.email, profile.image}
       THEN Trap /\ UNCHANGED queue
       ELSE /\ queue' = [queue EXCEPT ![current] = Append(@,
                    Write(<<profile.userId, "own">>,
                          Data(profile.userId, profile.email, profile.name,
                               profile.image)))]
            /\ ui' = [ui EXCEPT !.saving[current] = @ + 1]
            /\ UNCHANGED <<chain, forms, profile>>
    /\ UNCHANGED <<accounts, current, server, photos>>

-----------------------------------------------------------------------------
(***************************************************************************)
(* The write stream sends the queue of the current user; what others have  *)
(* queued waits for them to come back.  The completion of updateUserData   *)
(* shows an alert, if the screen is still there: the last ui.saving writes *)
(* of a queue are its own.                                                 *)
(***************************************************************************)
Pipeline == queue[current]
OwnWrites == {i \in DOMAIN Pipeline : Pipeline[i].doc[2] = "own"}

Reported(alert) ==
    IF /\ Head(Pipeline).doc[2] = "own"
       /\ ui.saving[current] > 0
       /\ Cardinality(OwnWrites) = ui.saving[current]
    THEN ui' = [ui EXCEPT !.saving[current] = @ - 1,
                          !.alert = IF Touchable("profile") THEN alert ELSE @]
    ELSE UNCHANGED ui

WriteDone ==
    /\ ui.up /\ Pipeline # <<>>
    /\ server' = Commit(server, Head(Pipeline))
    /\ queue' = [queue EXCEPT ![current] = Tail(@)]
    /\ Reported("success")
    /\ UNCHANGED <<accounts, current, photos, chain, forms, profile>>

WriteRefused ==
    /\ "refuse" \in Faults
    /\ ui.up /\ Pipeline # <<>>
    /\ queue' = [queue EXCEPT ![current] = Tail(@)]
    /\ Reported("error")
    /\ UNCHANGED <<accounts, current, server, photos, chain, forms, profile>>

-----------------------------------------------------------------------------
SignUpStep(a) ==
    \/ signUpButton(a) \/ AccountCreated(a) \/ CreateFailed(a)
    \/ CreateCompleted(a)
    \/ \E ok \in BOOLEAN : PhotoPut(a, ok)
    \/ ProfileAdded(a) \/ UrlFailed(a)

ProfileStep ==
    \/ OpenProfile \/ AuthStateDidChange
    \/ \E a \in Accounts : getUserData(a) \/ GetFailed(a)
    \/ \E name \in Names : EditName(name)
    \/ ProfilePhotoPicked
    \/ \E ok \in BOOLEAN : ProfilePhotoPut(ok) \/ ProfilePhotoUrl(ok)
    \/ updateUserData

Next ==
    \/ Launch \/ Kill
    \/ \E a \in Accounts : loginButton(a)
    \/ SignedIn \/ SignInFailed \/ logOutPressed
    \/ googleButton \/ GoogleSignedIn \/ GoogleFailed \/ OpenPostings
    \/ \E i \in 1..MaxForms : OpenSignUp(i)
    \/ imagePicked \/ Back \/ AlertOk
    \/ \E name \in Names, email \in Accounts : FillForm(name, email)
    \/ \E a \in Accounts : SignUpStep(a)
    \/ ProfileStep
    \/ WriteDone \/ WriteRefused

Spec == Init /\ [][Next]_vars

(* The SDKs call the completions of a running process; a closed app is     *)
(* opened again some day, and the write stream retries while it is open.   *)
Fairness ==
    /\ WF_vars(Launch) /\ SF_vars(WriteDone)
    /\ \A a \in Accounts :
          /\ WF_vars(CreateCompleted(a))
          /\ WF_vars(\E ok \in BOOLEAN : PhotoPut(a, ok))
          /\ WF_vars(ProfileAdded(a) \/ UrlFailed(a))

FairSpec == Spec /\ Fairness

-----------------------------------------------------------------------------
(* Types; the current user and the user of the profile screen are accounts *)
(* that Auth knows.                                                        *)
TypeOK ==
    /\ accounts \subseteq Accounts
    /\ current \in accounts \cup {Absent}
    /\ server \in [Docs -> [Fields -> Values]]
    /\ queue \in [Owners -> Seq(Writes)]
    /\ photos \subseteq Docs
    /\ chain \in [Accounts -> Chains]
    /\ forms \in [1..MaxForms -> Forms]
    /\ ui \in UIs
    /\ "signup" \in ui.open => ui.form # 0
    /\ profile \in [userId : accounts \cup {Absent}, email : Values,
                    name : Values, image : Values]

(* Every document about to be stored, or stored.                           *)
Written == {server[d] : d \in {d \in Docs : server[d] # Unknown}}
           \cup UNION {{queue[u][i].patch : i \in DOMAIN queue[u]} :
                          u \in Owners}

(* A photo that a profile links to is in Storage: the link is taken only   *)
(* after the upload has succeeded, and the profile screen stores a link it *)
(* has read or uploaded, whoever is signed in by then.                     *)
LinkedPhotoStored ==
    /\ \A data \in Written : data["image"] \in photos
    /\ profile.image \in photos \cup {Absent}

(* What LinkedPhotoStored needs of the chains.                             *)
ChainPhotos ==
    \A a \in Accounts : chain[a].stage = "url" => <<a, "signup">> \in photos

(* An account's documents hold its own address and its own photo, and the  *)
(* profile screen never mixes two accounts; for a user who waits for the   *)
(* answer before leaving the log-in or sign-up screen, and leaves the form *)
(* alone until then.  (A sign-up that ends while another account's profile *)
(* is open changes userId under the fields that were read before.)         *)
ProfilesApart ==
    /\ \A data \in Written :
          data["email"] = data["user"] /\ data["image"][1] = data["user"]
    /\ profile.image # Absent => profile.image[1] = profile.userId
    /\ profile.email \in {Absent, profile.userId}

(* An update is queued for the account it is about: the profile screen     *)
(* never writes one account's document with another one signed in, or with *)
(* nobody; for the user of ProfilesApart.  (updateUserData names the       *)
(* document after userId, kept since the last call of the listener; the    *)
(* SDK queues and sends it as the current user.)                           *)
UpdatesOfTheirUser ==
    \A u \in Owners : \A i \in DOMAIN queue[u] :
        queue[u][i].doc[2] = "own" => queue[u][i].doc[1] = u

(* Once "Sign Up Sucessfull!" is due the account's document reaches the    *)
(* backend, if Storage takes the photo, unless the app ends on the way or  *)
(* somebody else, or nobody, is signed in by then.                         *)
SignUpLands ==
    \A a \in Accounts :
        chain[a].stage = "created" ~>
            server[<<a, "signup">>]["user"] = a \/ ~ui.up \/ current # a

(* "Your profile is updated.": who opens the profile again sees the data   *)
(* that was written.                                                       *)
UpdateIsShown ==
    ui.alert = "success" =>
        View[Shown(profile.userId)] = View[<<profile.userId, "own">>]
=============================================================================
