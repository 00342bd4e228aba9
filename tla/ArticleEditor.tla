---------------------------- MODULE ArticleEditor ----------------------------
(***************************************************************************)
(* The article form of the admin site (ArticleEditorView.vue) on top of    *)
(* the article service.  Each tab has one form and at most one request in  *)
(* progress; the form can be typed in meanwhile.  After a save, a publish  *)
(* or a withdrawal the form takes the version and the status of the        *)
(* answer, keeps its own text and declares that text saved.                *)
(*                                                                         *)
(* A tab leaves a form only between requests.  The title goes with the     *)
(* body.                                                                   *)
(***************************************************************************)
EXTENDS Articles

CONSTANT Faults   \* which of "load", "answer" may happen

ASSUME FaultsAssumption == Faults \subseteq {"load", "answer"}

(* waits: for the answer to "create", or to the read after a "withdraw".   *)
(* saved is the form's baseline; sent the text of the last save.  base and *)
(* known are history: the text the tab last got from the server or had     *)
(* confirmed by it, and whether it ever got any.                           *)
VARIABLE tab

editorVars == <<row, handler, minted, tab>>

Form == [mode : {"closed", "new", "loading", "open"},
         waits : {"nothing", "create", "withdraw"},
         article : Article, version : Nat, status : {"draft", "published"},
         text : Text, saved : Text, sent : Text, base : Text,
         known : BOOLEAN]

EditorTypeOK ==
  /\ TypeOK
  /\ tab \in [Handler -> Form]
  /\ \A h \in Handler :
       tab[h].mode = "open" => tab[h].version > 0 /\ Records!Exists(tab[h].article)

(* A wrong blank form: version 0 until one is loaded.                      *)
FreshUnversioned(mode, a) ==
  [mode |-> mode, waits |-> "nothing", article |-> a, version |-> 0,
   status |-> "draft", text |-> NoBody, saved |-> NoBody, sent |-> NoBody,
   base |-> NoBody, known |-> FALSE]

Fresh(mode, a) ==
  [mode |-> mode, waits |-> "nothing", article |-> a, version |-> 1,
   status |-> "draft", text |-> NoBody, saved |-> NoBody, sent |-> NoBody,
   base |-> NoBody, known |-> FALSE]

EditorInit ==
  /\ Init
  /\ \E a \in Article : tab = [h \in Handler |-> Fresh("closed", a)]

Quiet(h) == Idle(h) /\ tab[h].waits = "nothing"

Row(h) == row[tab[h].article]

----------------------------------------------------------------------------
NewForm(h) ==
  /\ Quiet(h) /\ tab[h].mode # "loading"
  /\ tab' = [tab EXCEPT ![h] = Fresh("new", tab[h].article)]
  /\ UNCHANGED vars

OpenForm(h, a) ==
  /\ Quiet(h) /\ tab[h].mode # "loading"
  /\ Records!Exists(a)
  /\ tab' = [tab EXCEPT ![h] = Fresh("loading", a)]
  /\ UNCHANGED vars

(* applyArticle                                                            *)
Load(h) ==
  /\ tab[h].mode = "loading"
  /\ tab' = [tab EXCEPT ![h] = [@ EXCEPT
       !.mode = "open", !.version = Row(h).version, !.status = Row(h).status,
       !.text = Row(h).body, !.saved = Row(h).body, !.base = Row(h).body,
       !.known = TRUE]]
  /\ UNCHANGED vars

(* The form is shown all the same, blank and with version 1.               *)
LoadFails(h) ==
  /\ "load" \in Faults
  /\ tab[h].mode = "loading"
  /\ tab' = [tab EXCEPT ![h].mode = "open"]
  /\ UNCHANGED vars

Type(h, text) ==
  /\ tab[h].mode \in {"new", "open"}
  /\ text # tab[h].text
  /\ tab' = [tab EXCEPT ![h].text = text]
  /\ UNCHANGED vars

----------------------------------------------------------------------------
(* A wrong updateFromResponse: the status stays.                           *)
AdoptedWithoutStatus(h, status) ==
  [tab[h] EXCEPT !.version = Row(h).version, !.saved = tab[h].text,
                 !.waits = "nothing"]

(* updateFromResponse, which no answer's text goes into.                   *)
Adopted(h, status) ==
  [tab[h] EXCEPT !.version = Row(h).version, !.status = status,
                 !.saved = tab[h].text, !.waits = "nothing"]

(* The answer to a save also confirms what was sent.                       *)
Confirmed(h) ==
  [Adopted(h, Row(h).status) EXCEPT !.base = tab[h].sent, !.known = TRUE]

SaveNew(h, a) ==
  /\ Quiet(h) /\ tab[h].mode = "new"
  /\ Create(a, tab[h].text)
  /\ tab' = [tab EXCEPT ![h].waits = "create", ![h].article = a,
                        ![h].sent = tab[h].text]

(* The page moves to the address of the new article, for which the leave   *)
(* guard asks first, the text not being saved in its eyes: refused, the    *)
(* form stays a new one.                                                   *)
AnswerCreate(h) ==
  /\ tab[h].waits = "create"
  /\ \E mode \in {"open", "new"} :
       /\ mode = "new" => tab[h].text # tab[h].saved
       /\ tab' = [tab EXCEPT ![h] = [Confirmed(h) EXCEPT !.mode = mode]]
  /\ UNCHANGED vars

----------------------------------------------------------------------------
(* A wrong check: any version of the form will do.                         *)
SendsAnyVersion(h) ==
  /\ Quiet(h) /\ tab[h].mode = "open"
  /\ tab' = [tab EXCEPT ![h].sent = tab[h].text]

(* The version of the form is checked first of all (service.go).           *)
SendsCurrentVersion(h) ==
  /\ Quiet(h) /\ tab[h].mode = "open"
  /\ tab[h].version = Row(h).version
  /\ tab' = [tab EXCEPT ![h].sent = tab[h].text]

Save(h) ==
  /\ SendsCurrentVersion(h)
  /\ BeginSave(h, tab[h].article, tab[h].text)

PublishForm(h) ==
  /\ SendsCurrentVersion(h)
  /\ BeginPublish(h, tab[h].article, tab[h].text)

WithdrawForm(h) ==
  /\ SendsCurrentVersion(h)
  /\ tab[h].status = "published"
  /\ BeginWithdraw(h, tab[h].article)

(* The answer carries the row as it is after the write, by now perhaps     *)
(* changed again by another tab; a withdrawal has no answer to carry and   *)
(* the page asks for the article next.                                     *)
AnswerForm(h) ==
  /\ Answer(h)
  /\ tab' = [tab EXCEPT ![h] =
       IF handler[h].op = "withdraw" THEN [@ EXCEPT !.waits = "withdraw"]
       ELSE Confirmed(h)]

RereadWithdrawn(h) ==
  /\ tab[h].waits = "withdraw"
  /\ tab' = [tab EXCEPT ![h] = Adopted(h, "draft")]
  /\ UNCHANGED vars

(* The request did what it did, and the page does not hear of it.          *)
AnswerLost(h) ==
  /\ "answer" \in Faults
  /\ \/ Answer(h) /\ UNCHANGED tab
     \/ /\ tab[h].waits # "nothing"
        /\ tab' = [tab EXCEPT ![h].waits = "nothing"]
        /\ UNCHANGED vars

EditorNext ==
  \E h \in Handler :
    \/ NewForm(h) \/ Load(h) \/ LoadFails(h)
    \/ \E a \in Article : OpenForm(h, a) \/ SaveNew(h, a)
    \/ \E text \in Text : Type(h, text)
    \/ Save(h) \/ PublishForm(h) \/ WithdrawForm(h)
    \/ (WriteUpdate(h) \/ WriteWithdraw(h) \/ Reject(h)) /\ UNCHANGED tab
    \/ AnswerCreate(h) \/ AnswerForm(h) \/ RereadWithdrawn(h) \/ AnswerLost(h)

EditorSpec == EditorInit /\ [][EditorNext]_editorVars

----------------------------------------------------------------------------
(* What a save or a publish may overwrite unseen (ADR-0015 says nothing):  *)
(* the text it replaces is the one its tab was last given, or had          *)
(* confirmed, by the server.  A form whose load failed, and which was      *)
(* given nothing since, replaces at most the text its article was created  *)
(* with, before anyone saved it.                                           *)
NoLostEdit ==
  [][\A h \in Handler :
       WriteUpdate(h) =>
         \/ tab[h].known /\ Row(h).body = tab[h].base
         \/ ~ tab[h].known /\ Row(h).version = 1]_editorVars

(* A form that holds the row's version shows whether the article is        *)
(* public, however its requests, answers and failures fell.                *)
StatusTruthful ==
  \A h \in Handler :
    tab[h].mode = "open" /\ tab[h].version = Row(h).version =>
      tab[h].status = Row(h).status

(* What the documents promise and the code does not: a form whose load     *)
(* failed overwrites nothing (ADR-0015).  Its version 1 is only a default, *)
(* which is also the version of a new article.  No run checks it.          *)
BlankReplacesNothing ==
  [][\A h \in Handler :
       WriteUpdate(h) /\ ~ tab[h].known =>
         row'[tab[h].article].body = Row(h).body]_editorVars
=============================================================================
