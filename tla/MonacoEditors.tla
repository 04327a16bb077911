---------------------------- MODULE MonacoEditors ----------------------------
(***************************************************************************)
(* The editors of JSON settings in the web client: the component           *)
(* JsonSetting, of which one is shown at a card's place, and               *)
(* monacoIntegration, which keeps the Monaco editors by the id of the DOM  *)
(* element they are made for.                                              *)
(*                                                                         *)
(* The page has one thread.  What the user does and what timers and loads  *)
(* bring are tasks; what follows an await of something that is done        *)
(* already runs before the next task, in the order it was queued (micro).  *)
(* A change of an editor's content calls its listeners at once, and these  *)
(* read the content back and set the value before the next task.           *)
(*                                                                         *)
(* The card's place keeps its component when another client is selected    *)
(* whose card at that place has a JSON setting too, and gets a new one     *)
(* when it is collapsed and expanded, or held something else between.      *)
(***************************************************************************)
EXTENDS Naturals, Sequences

CONSTANTS
    Settings,       \* JSON settings of all clients
    IdOf,           \* [Settings -> ids]: EditorId, made of the setting's name alone
    WithSchema,     \* settings that have a JSON schema
    Values,         \* contents but for the blank one
    Initially,      \* [Settings -> Values]: the values when the page opens
    Blank,
    Unset,          \* no value, no component, no setting
    MaxInstances,   \* bound: components made
    MaxChanges      \* bound: changes of values by typing, formatting or from outside

ASSUME ValuesAssumption ==
    Blank \notin Values /\ Unset \notin Values \cup {Blank} \cup Settings \cup 1..MaxInstances
ASSUME InitiallyAssumption == Initially \in [Settings -> Values]
ASSUME SchemaAssumption == WithSchema \subseteq Settings
ASSUME BoundsAssumption == MaxInstances \in Nat /\ MaxChanges \in Nat

Instances == 1..MaxInstances
Ids       == {IdOf[s] : s \in Settings}
Contents  == Values \cup {Blank}
Models    == Ids \X Instances

VARIABLES
    value,          \* [Settings -> Contents]: Setting.Value
    shown,          \* the component at the place, or Unset
    made,           \* number of components made
    setting,        \* [Instances -> the parameter Setting]
    stage,          \* [Instances -> how far OnAfterRenderAsync is]
    options,        \* [Instances -> editorId and options of InitializeEditor]
    lastValue,      \* [Instances -> _lastValue]
    monaco,         \* loadingPromise and isMonacoLoaded
    awaiting,       \* components that await loadingPromise, in order
    micro,          \* continuations that run before the next task
    editors,        \* ids to editors: model, content, component of the element, listeners
    models,         \* models that exist in Monaco
    schemas,        \* ids with a schema
    diagnostics,    \* models the JSON diagnostics have a schema for
    changes,        \* number of changes so far
    cutOff,         \* history: components replaced before they were initialised
    moved           \* history: components that have had a setting of another name

component == <<shown, made, setting, stage, options, awaiting, cutOff, moved>>
monacoVars == <<editors, models, schemas, diagnostics>>
vars == <<component, value, lastValue, monaco, micro, monacoVars, changes>>

NoOptions == [id |-> Unset, content |-> Blank, schema |-> FALSE]
EditorId(i) == IdOf[setting[i]]
NextId(i) == IdOf[setting'[i]]

\* Every variable holds values of its kind.
TypeOK ==
    /\ value \in [Settings -> Contents]
    /\ shown \in Instances \cup {Unset}
    /\ made \in 0..MaxInstances
    /\ setting \in [Instances -> Settings \cup {Unset}]
    /\ stage \in [Instances -> {"none", "delay", "awaiting", "creating", "initialized"}]
    /\ options \in [Instances -> [id : Ids \cup {Unset}, content : Contents, schema : BOOLEAN]]
    /\ lastValue \in [Instances -> Contents \cup {Unset}]
    /\ monaco \in {"absent", "loading", "loaded", "failed"}
    /\ awaiting \in Seq(Instances)
    /\ micro \in Seq({"create", "listen"} \X Instances)
    /\ \A x \in DOMAIN editors : x \in Ids /\ editors[x] \in [model : Models, content : Contents,
                                                             host : Instances, listeners : SUBSET Instances]
    /\ models \subseteq Models
    /\ schemas \subseteq Ids
    /\ diagnostics \subseteq Models
    /\ changes \in 0..MaxChanges
    /\ cutOff \subseteq Instances
    /\ moved \subseteq Instances

Init ==
    /\ value = Initially
    /\ shown = Unset
    /\ made = 0
    /\ setting = [i \in Instances |-> Unset]
    /\ stage = [i \in Instances |-> "none"]
    /\ options = [i \in Instances |-> NoOptions]
    /\ lastValue = [i \in Instances |-> Unset]
    /\ monaco = "absent"
    /\ awaiting = <<>>
    /\ micro = <<>>
    /\ editors = [x \in {} |-> Unset]
    /\ models = {}
    /\ schemas = {}
    /\ diagnostics = {}
    /\ changes = 0
    /\ cutOff = {}
    /\ moved = {}

\* A task starts when no continuation is left.
Task == micro = <<>>
Change == changes < MaxChanges /\ changes' = changes + 1

(***************************************************************************)
(* monacoIntegration.                                                      *)
(***************************************************************************)

HasEditor(x) == x \in DOMAIN editors

\* getValue: blank when there is no such editor.
GetValue(x) == IF HasEditor(x) THEN editors[x].content ELSE Blank

\* updateJsonDiagnostics, for these schemas and editors.
Diagnostics(S, E) == {E[x].model : x \in S \cap DOMAIN E}

\* Mutant: the schema of an editor stays when it is disposed of.
SchemasKept(x) == schemas

\* dispose: the schema goes,
SchemasWithout(x) == schemas \ {x}

\* the model that was made for the editor,
ModelsWithout(x) == IF HasEditor(x) THEN models \ {editors[x].model} ELSE models

\* and the editor with its listeners.
EditorsWithout(x) == [y \in DOMAIN editors \ {x} |-> editors[y]]

Dispose(x) ==
    /\ schemas' = SchemasWithout(x)
    /\ editors' = EditorsWithout(x)
    /\ models' = ModelsWithout(x)
    /\ diagnostics' = IF x \in schemas THEN Diagnostics(schemas', editors) ELSE diagnostics

\* Mutant: the listeners of the editor before are kept.
ListenersBefore(x) == IF HasEditor(x) THEN editors[x].listeners ELSE {}

\* A new editor has none of the component's listeners yet.
ListenersAtFirst(x) == {}

\* Mutant: a new editor is blank.
BlankAtFirst(o) == Blank

\* A new editor has the value of the options, taken before Monaco was loaded.
ContentAtFirst(o) == o.content

\* initialize, once Monaco is there: an editor that exists for the id is disposed of, and one
\* is made in the element that has the id now, whoever made that element.
Initialize(i) ==
    LET o     == options[i]
        model == <<o.id, i>>
        new   == [model |-> model, content |-> ContentAtFirst(o), host |-> shown, listeners |-> ListenersAtFirst(o.id)]
    IN
    IF shown # Unset /\ EditorId(shown) = o.id
    THEN /\ editors' = [x \in DOMAIN editors \cup {o.id} |-> IF x = o.id THEN new ELSE editors[x]]
         /\ models' = ModelsWithout(o.id) \cup {model}
         /\ schemas' = SchemasWithout(o.id) \cup (IF o.schema THEN {o.id} ELSE {})
         /\ diagnostics' = IF o.id \in schemas \/ o.schema THEN Diagnostics(schemas', editors') ELSE diagnostics
    ELSE UNCHANGED monacoVars

\* onDidChangeModelContent: whatever editor has the id now.
Listen(i) ==
    LET x == options[i].id IN
    /\ editors' = IF HasEditor(x) THEN [editors EXCEPT ![x].listeners = @ \cup {i}] ELSE editors
    /\ UNCHANGED <<models, schemas, diagnostics>>

\* loadMonaco: the first caller starts the load, and all await the one promise; once it is
\* settled a caller goes on at once, and with an error it skips to onDidChangeModelContent.
LoadMonaco(i) ==
    /\ monaco' = IF monaco = "absent" THEN "loading" ELSE monaco
    /\ awaiting' = IF monaco \in {"absent", "loading"} THEN Append(awaiting, i) ELSE awaiting
    /\ micro' = CASE monaco = "loaded" -> <<<<"create", i>>>>
                  [] monaco = "failed" -> <<<<"listen", i>>>>
                  [] OTHER -> <<>>
    /\ stage' = [stage EXCEPT ![i] = IF monaco \in {"absent", "loading"} THEN "awaiting" ELSE "creating"]

\* The promise is settled for those that await it.
Settle(as, step) ==
    /\ monaco' = as
    /\ micro' = [k \in 1..Len(awaiting) |-> <<step, awaiting[k]>>]
    /\ awaiting' = <<>>
    /\ stage' = [i \in Instances |-> IF stage[i] = "awaiting" THEN "creating" ELSE stage[i]]

(***************************************************************************)
(* The listeners: OnContentChanged of the components.                      *)
(***************************************************************************)

\* Mutant: a component heeds its editor only while its last value is not set.
HeedsFirst(i) == stage[i] = "initialized" /\ lastValue[i] = Unset

\* A component heeds changes once it is initialised.
Heeds(i) == stage[i] = "initialized"

\* What a component reads that has id y, when the editor with id x has come to content v.
Reads(y, x, v) == IF y = x THEN v ELSE GetValue(y)

\* The components that set the value of their setting when editor x has come to content v.
Setters(x, v) == {i \in editors[x].listeners : Heeds(i) /\ Reads(NextId(i), x, v) # lastValue[i]}

\* The content of an editor changes to v and its listeners set the values of their settings,
\* which were val before; all that have one setting read the same.  The components told know the
\* content already.
ContentChanges(x, v, val, told) ==
    /\ editors' = [editors EXCEPT ![x].content = v]
    /\ lastValue' = [i \in Instances |-> IF i \in told THEN v
                                         ELSE IF i \in Setters(x, v) THEN Reads(NextId(i), x, v) ELSE lastValue[i]]
    /\ value' = [s \in Settings |-> IF \E i \in Setters(x, v) : setting'[i] = s
                                    THEN Reads(IdOf[s], x, v) ELSE val[s]]
    /\ UNCHANGED <<models, schemas, diagnostics>>

(***************************************************************************)
(* The component JsonSetting.                                              *)
(***************************************************************************)

\* OnParametersSetAsync, with values val: one that is not the last is set in the editor, if there
\* is one by the id the component has now.
ParametersSet(i, val) ==
    LET x == NextId(i)
        v == val[setting'[i]]
    IN
    IF stage[i] # "initialized" \/ v = lastValue[i]
    THEN value' = val /\ UNCHANGED <<lastValue, monacoVars>>
    ELSE IF HasEditor(x)
    THEN ContentChanges(x, v, val, {i})
    ELSE value' = val /\ lastValue' = [lastValue EXCEPT ![i] = v] /\ UNCHANGED monacoVars

\* A new component is rendered for s, and OnAfterRenderAsync starts its delay.
Show(s) ==
    /\ Task
    /\ shown = Unset
    /\ made < MaxInstances
    /\ made' = made + 1
    /\ shown' = made + 1
    /\ setting' = [setting EXCEPT ![made + 1] = s]
    /\ stage' = [stage EXCEPT ![made + 1] = "delay"]
    /\ UNCHANGED <<value, options, lastValue, monaco, awaiting, micro, monacoVars, changes, cutOff, moved>>

\* The card is collapsed, or its place gets a setting of another kind.  DisposeAsync of a component
\* that is initialised disposes of the editor by the id it has now.
Hide ==
    /\ Task
    /\ shown # Unset
    /\ shown' = Unset
    /\ IF stage[shown] = "initialized"
       THEN Dispose(EditorId(shown)) /\ UNCHANGED cutOff
       ELSE cutOff' = cutOff \cup {shown} /\ UNCHANGED monacoVars
    /\ UNCHANGED <<made, setting, stage, options, value, lastValue, monaco, awaiting, micro, changes, moved>>

\* Another client is selected whose card at the place has JSON setting s: the cards have no key,
\* and the component stays with a new parameter.
Reuse(s) ==
    /\ Task
    /\ shown # Unset
    /\ s # setting[shown]
    /\ setting' = [setting EXCEPT ![shown] = s]
    /\ ParametersSet(shown, value)
    /\ moved' = IF IdOf[s] = EditorId(shown) THEN moved ELSE moved \cup {shown}
    /\ UNCHANGED <<shown, made, stage, options, monaco, awaiting, micro, changes, cutOff>>

\* The delay is over, of the components in turn for it is the same for all: InitializeEditor calls
\* initialize with the id, value and schema of now.
DelayEnds(i) ==
    /\ Task
    /\ stage[i] = "delay"
    /\ \A j \in 1..i - 1 : stage[j] # "delay"
    /\ options' = [options EXCEPT ![i] = [id |-> EditorId(i), content |-> value[setting[i]],
                                          schema |-> setting[i] \in WithSchema]]
    /\ LoadMonaco(i)
    /\ UNCHANGED <<shown, made, setting, value, lastValue, monacoVars, changes, cutOff, moved>>

\* The load ends.
MonacoLoads ==
    /\ Task
    /\ monaco = "loading"
    /\ Settle("loaded", "create")
    /\ UNCHANGED <<shown, made, setting, options, value, lastValue, monacoVars, changes, cutOff, moved>>

\* The load fails, and the rejected promise is kept.
MonacoFails ==
    /\ Task
    /\ monaco = "loading"
    /\ Settle("failed", "listen")
    /\ UNCHANGED <<shown, made, setting, options, value, lastValue, monacoVars, changes, cutOff, moved>>

\* The rest of initialize; the call of onDidChangeModelContent comes after it.
Creates ==
    /\ micro # <<>>
    /\ Head(micro)[1] = "create"
    /\ Initialize(Head(micro)[2])
    /\ micro' = Append(Tail(micro), <<"listen", Head(micro)[2]>>)
    /\ UNCHANGED <<component, value, lastValue, monaco, changes>>

\* The rest of InitializeEditor.
Initialized ==
    /\ micro # <<>>
    /\ Head(micro)[1] = "listen"
    /\ Listen(Head(micro)[2])
    /\ stage' = [stage EXCEPT ![Head(micro)[2]] = "initialized"]
    /\ micro' = Tail(micro)
    /\ UNCHANGED <<shown, made, setting, options, awaiting, cutOff, moved, value, lastValue, monaco, changes>>

\* The user types into an editor that is in the shown component's element.
Type(x, v) ==
    /\ Task
    /\ Change
    /\ HasEditor(x)
    /\ editors[x].host = shown
    /\ v # editors[x].content
    /\ UNCHANGED <<component, monaco, micro>>
    /\ ContentChanges(x, v, value, {})

\* The value is reset or set by another setting of its group, and the card is rendered again.
ChangeOutside(s, v) ==
    /\ Task
    /\ Change
    /\ value[s] # v
    /\ UNCHANGED <<component, monaco, micro>>
    /\ LET val == [value EXCEPT ![s] = v] IN
       IF shown = Unset THEN value' = val /\ UNCHANGED <<lastValue, monacoVars>>
                        ELSE ParametersSet(shown, val)

\* FormatJson: the value is what the editor holds, whether there is one or not.
FormatJson ==
    /\ Task
    /\ Change
    /\ shown # Unset
    /\ value' = [value EXCEPT ![setting[shown]] = GetValue(EditorId(shown))]
    /\ UNCHANGED <<component, lastValue, monaco, micro, monacoVars>>

Next ==
    \/ \E s \in Settings : Show(s) \/ Reuse(s)
    \/ Hide
    \/ \E i \in Instances : DelayEnds(i)
    \/ MonacoLoads
    \/ MonacoFails
    \/ Creates
    \/ Initialized
    \/ \E x \in Ids, v \in Values : Type(x, v)
    \/ \E s \in Settings, v \in Values : ChangeOutside(s, v)
    \/ FormatJson

Spec == Init /\ [][Next]_vars

(***************************************************************************)
(* Properties.                                                             *)
(***************************************************************************)

\* Whatever is disposed of and made again, Monaco holds the models of the editors and no other,
\* a schema only for an editor there is, and validates the editors that have one: nothing of an
\* editor that is gone validates or leaks.
ModelsAndSchemasFollow ==
    /\ TypeOK
    /\ models = {editors[x].model : x \in DOMAIN editors}
    /\ schemas \subseteq DOMAIN editors
    /\ diagnostics = Diagnostics(schemas, editors)

\* What is typed into an editor changes the value of the setting that is shown, or of one whose
\* component was replaced before its editor came and listens to the editor of its successor.
OnlyShownSettingChanges ==
    [][(\E x \in Ids, v \in Values : Type(x, v)) =>
          \A s \in Settings : value'[s] # value[s] => \E i \in cutOff \cup {shown} : setting[i] = s]_vars

\* The editor of the shown component shows the value of its setting, once either has changed
\* and as long as the component has kept its name: what is saved is what is seen.
EditorShowsValue ==
    shown # Unset /\ shown \notin moved /\ micro = <<>> =>
        (stage[shown] = "initialized" /\ HasEditor(EditorId(shown)) /\ lastValue[shown] # Unset
           => editors[EditorId(shown)].content = value[setting[shown]])

\* Nothing in the page is blank: no value, no editor, and no options of an editor yet to be made.
NothingIsBlank ==
    /\ \A s \in Settings : value[s] # Blank
    /\ \A x \in DOMAIN editors : editors[x].content # Blank
    /\ \A i \in Instances : stage[i] \in {"awaiting", "creating"} => options[i].content # Blank

\* Blank, which nobody has chosen here, comes into the page as a value only, whose component reads
\* an editor by an id that has none: a value is lost first while its editor is not there, never by
\* an editor or on the way into one.
BlankOnlyWithoutEditor ==
    [][NothingIsBlank =>
          /\ NothingIsBlank' \/ \E s \in Settings : value'[s] = Blank
          /\ \A s \in Settings : value'[s] = Blank =>
                \E i \in Instances : setting[i] = s /\ EditorId(i) \notin DOMAIN editors]_vars
=============================================================================
