----------------------------- MODULE AuthPages -----------------------------
(***************************************************************************)
(* How the decode task collects the pages of a signature and checks it     *)
(* (tracker_ingest in rx_core.h, odid_verify_auth in odid_verify.h), for   *)
(* one contact.                                                            *)
(*                                                                         *)
(* A signature set covers the raw Basic ID and the timestamp of page 0. An *)
(* aircraft sends it a message at a time in any order, round and round     *)
(* (BLE 4), or whole in a pack, and signs anew at most once a second.      *)
(* Messages are lost. A second transmitter may send another Basic ID for   *)
(* the same serial.                                                        *)
(*                                                                         *)
(* A set is named by its number, a page's bytes by the set it is of: all   *)
(* sets have the same type and length, that of an Ed25519 signature. Left  *)
(* out: a Basic ID that is no serial (it never replaces one), and a check  *)
(* 24 days old, when the signed difference of millis() turns over.         *)
(***************************************************************************)
EXTENDS Integers, FiniteSets

CONSTANTS
  LastPage,  \* auth_last_page
  Window,    \* AUTH_VERIFY_MIN_MS
  MaxSet,    \* bound of the model: signature sets
  MaxLost,   \* bound of the model: messages lost
  MaxOther   \* bound of the model: messages of the second transmitter

ASSUME AuthAssumption ==
  /\ LastPage \in 0 .. 15 /\ Window \in Nat \ {0} /\ MaxSet \in Nat \ {0}
  /\ MaxLost \in Nat /\ MaxOther \in Nat

Page  == 0 .. LastPage
SetNo == 1 .. MaxSet
Own   == 1   \* the Basic ID the aircraft sends and signs
Other == 2   \* that of the second transmitter

VARIABLES
  asm,      \* t->auth_asm: Basic ID (0 none), the set each page is of (0 not seen), verified, verify_due
  verdict,  \* t->auth_state
  since,    \* time since verify_ms, at most Window; Window when it is 0
  sending,  \* the aircraft's signature set
  todo,     \* what is left of its rotation
  age,      \* time since it signed, at most Window
  settled,  \* did the rotation begin when it could have signed anew?
  whole,    \* history: nothing of the rotation was lost or disturbed
  clean,    \* history: whole rotations of this set one after the other, at most 2
  lost,     \* history: messages lost
  others,   \* history: messages of the second transmitter
  checked   \* history: what was checked last since the Basic ID changed

air      == <<sending, todo, age, settled, lost>>
authVars == <<asm, verdict, since, sending, todo, age, settled, whole, clean, lost, others, checked>>

NoPages == [p \in Page |-> 0]
Empty   == [basic |-> 0, page |-> NoPages, verified |-> FALSE, due |-> FALSE]
Nothing == [basic |-> 0, page |-> NoPages]
BasicId == LastPage + 1
Message == Page \union {BasicId}   \* what a rotation sends

AuthInit ==
  /\ asm = Empty /\ verdict = "none" /\ since = Window
  /\ sending = 1 /\ todo = Message /\ age = 0 /\ settled = FALSE
  /\ whole = TRUE /\ clean = 0 /\ lost = 0 /\ others = 0 /\ checked = Nothing

Seen(a)     == {p \in Page : a.page[p] # 0}
Complete(a) == Seen(a) = Page

-----------------------------------------------------------------------------
(* A frame carries a Basic ID (or 0) and pages of one set. *)

\* "A different ID drops everything collected."
Identified(a, u) ==
  IF u.basic = 0 THEN a
  ELSE IF a.basic \notin {0, u.basic} THEN [Empty EXCEPT !.basic = u.basic]
  ELSE [a EXCEPT !.basic = u.basic]

\* A bug to compare with: only page 0 begins a set.
BeginsAtPage0(a, u) == 0 \in u.pages /\ a.page[0] \notin {0, u.set}

\* The frame begins a new set: its page 0 is of another one, or it has a page
\* that is not of the set already checked.
BeginsSet(a, u) ==
  \/ 0 \in u.pages /\ a.page[0] \notin {0, u.set}
  \/ 0 \notin u.pages /\ a.verified /\ \E p \in u.pages : a.page[p] # u.set

\* A bug to compare with: the pages go, the flag stays.
DroppedPages(a) == [a EXCEPT !.page = NoPages]

Dropped(a) == [a EXCEPT !.page = NoPages, !.verified = FALSE]

\* A bug to compare with: a set that comes round again is news.
NewsAgain(a, c, u) == c.basic # a.basic \/ u.pages # {}

\* The Basic ID, or a byte of the pages left, is not what was held.
News(a, c, u) == c.basic # a.basic \/ \E p \in u.pages : c.page[p] # u.set

\* What is held after the frame, and that a check is due.
Collected(a, u) ==
  LET b == Identified(a, u)
      c == IF BeginsSet(b, u) THEN Dropped(b) ELSE b
      d == [c EXCEPT !.page = [p \in Page |-> IF p \in u.pages THEN u.set ELSE c.page[p]]]
  IN [d EXCEPT !.due = d.due \/ (Seen(d) # {} /\ News(a, c, u))]

\* odid_verify_auth: the signature is that of the aircraft's Basic ID.
Verify(a) ==
  IF ~Complete(a) \/ a.basic = 0 THEN "partial"
  ELSE IF a.basic = Own /\ \A p \in Page : a.page[p] = a.page[0] THEN "valid"
  ELSE "invalid"

Costly(a) == Complete(a) /\ a.basic # 0

\* A bug to compare with: a check the window puts off is forgotten.
PutOffForgotten(a) == [a EXCEPT !.due = FALSE]

\* A check that has to wait stays due.
PutOff(a) == a

\* tracker_ingest: a partial set does not take the verdict of the last one away.
Ingested(u) ==
  LET a     == Collected(asm, u)
      new   == u.basic # 0 /\ asm.basic \notin {0, u.basic}   \* everything dropped, verify_ms too
      last  == IF new THEN "none" ELSE verdict
      wait  == IF new THEN Window ELSE since
      check == a.due /\ Seen(a) # {} /\ (Costly(a) => wait >= Window)
      v     == Verify(a)
  IN /\ asm' = IF check THEN [a EXCEPT !.due = FALSE, !.verified = a.verified \/ v # "partial"]
               ELSE IF a.due THEN PutOff(a) ELSE a
     /\ verdict' = IF ~check \/ (v = "partial" /\ last \in {"valid", "invalid"}) THEN last ELSE v
     /\ since' = IF check /\ Costly(a) THEN 0 ELSE wait
     /\ checked' = IF check /\ Costly(a) THEN [basic |-> a.basic, page |-> a.page]
                   ELSE IF new THEN Nothing ELSE checked

Frame(m) == [basic |-> IF m = BasicId THEN Own ELSE 0, pages |-> {m} \intersect Page, set |-> sending]
Pack     == [basic |-> Own, pages |-> Page, set |-> sending]

-----------------------------------------------------------------------------
(* On the air *)

HearMessage ==
  /\ \E m \in todo : Ingested(Frame(m)) /\ todo' = todo \ {m}
  /\ UNCHANGED <<sending, age, settled, whole, clean, lost, others>>

HearPack ==
  /\ todo = Message
  /\ Ingested(Pack)
  /\ todo' = {}
  /\ UNCHANGED <<sending, age, settled, whole, clean, lost, others>>

LoseMessage ==
  /\ lost < MaxLost
  /\ lost' = lost + 1
  /\ \E m \in todo : todo' = todo \ {m}
  /\ whole' = FALSE /\ clean' = 0
  /\ UNCHANGED <<asm, verdict, since, sending, age, settled, others, checked>>

\* The aircraft starts its rotation again, perhaps with a new signature, when
\* a rotation that began late enough has passed.
Rotate ==
  /\ todo = {}
  /\ todo' = Message /\ whole' = TRUE
  /\ \/ /\ settled /\ sending < MaxSet
        /\ sending' = sending + 1 /\ age' = 0 /\ settled' = FALSE /\ clean' = 0
     \/ /\ settled' = (age = Window)
        /\ clean' = IF ~whole THEN 0 ELSE IF clean < 2 THEN clean + 1 ELSE 2
        /\ UNCHANGED <<sending, age>>
  /\ UNCHANGED <<asm, verdict, since, lost, others, checked>>

HearOther ==
  /\ others < MaxOther
  /\ others' = others + 1
  /\ Ingested([basic |-> Other, pages |-> {}, set |-> sending])
  /\ whole' = FALSE /\ clean' = 0
  /\ UNCHANGED air

AuthTick ==
  /\ since < Window \/ age < Window
  /\ since' = IF since < Window THEN since + 1 ELSE since
  /\ age' = IF age < Window THEN age + 1 ELSE age
  /\ UNCHANGED <<asm, verdict, sending, todo, settled, whole, clean, lost, others, checked>>

AuthNext == HearMessage \/ HearPack \/ LoseMessage \/ Rotate \/ HearOther \/ AuthTick

AuthSpec == AuthInit /\ [][AuthNext]_authVars

-----------------------------------------------------------------------------
(* Properties *)

\* The types; a set counts as verified while it is held whole, with an ID.
AuthTypeOK ==
  /\ asm \in [basic : {0, Own, Other}, page : [Page -> SetNo \union {0}], verified : BOOLEAN, due : BOOLEAN]
  /\ verdict \in {"none", "partial", "valid", "invalid"}
  /\ since \in 0 .. Window /\ age \in 0 .. Window /\ sending \in SetNo /\ todo \subseteq Message
  /\ settled \in BOOLEAN /\ whole \in BOOLEAN /\ clean \in 0 .. 2
  /\ lost \in 0 .. MaxLost /\ others \in 0 .. MaxOther
  /\ checked \in [basic : {0, Own, Other}, page : [Page -> SetNo \union {0}]]
  /\ asm.verified => Costly(asm)

\* An aircraft whose messages all arrive, in whatever order each rotation has
\* them, is never said to be "not who it claims to be" (odid_verify.h), though
\* the pages of two sets meet in one buffer and checks are put off.
NotAccused == lost = 0 /\ others = 0 => verdict # "invalid"

\* Whatever was lost, mixed or dropped before: once the aircraft's set came
\* through whole twice, the next frame that may be checked has the verdict
\* right, and keeps it right.
Hearing == todo' # todo /\ lost' = lost /\ todo # {}

GenuineSoon == [][Hearing /\ clean = 2 /\ since = Window => verdict' = "valid"]_authVars

\* A set is checked once: "a transmitter repeating one signed pack at 50 Hz is
\* verified once, not per frame", also when its pages come round one by one,
\* when some are lost, and when the check was put off.
VerifiedOnce ==
  [][since' = 0 /\ since # 0 => checked' # checked]_authVars

\* What is checked is one signature set: "page 0's timestamp and type name one
\* signature set: ... a new set drops the pages of the old one".
OneSet == \A p \in Page : checked.page[p] = checked.page[0]
=============================================================================
