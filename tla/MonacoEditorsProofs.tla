------------------------- MODULE MonacoEditorsProofs -------------------------
(***************************************************************************)
(* Proofs about MonacoEditors, for any settings, contents and bounds.      *)
(*                                                                         *)
(* What the run checks is not inductive.  It rests on the order in which   *)
(* the components come through InitializeEditor (InTurn, Waiting, Queue):  *)
(* once the component that is shown is initialised, no other is on its way *)
(* to initialize any more, so no editor is made again behind its back and  *)
(* it listens to the one there is (Heard).  And it rests on who may be     *)
(* among the listeners of an editor that the user can type into            *)
(* (Audience).                                                             *)
(***************************************************************************)
EXTENDS MonacoEditors, TLAPS

\* The component shown is the last one made.
Made ==
    /\ shown # Unset => shown = made
    /\ \A i \in Instances : stage[i] = "none" <=> made < i
    /\ \A i \in Instances : setting[i] = Unset <=> made < i

\* No component overtakes one that was made before it.
InTurn ==
    \A i, j \in Instances : i < j =>
        /\ stage[j] = "awaiting" => stage[i] # "delay"
        /\ stage[j] = "creating" => stage[i] \in {"creating", "initialized"}
        /\ stage[j] = "initialized" => stage[i] = "initialized"

\* The components that await the load, in the order they were made.
Waiting ==
    /\ \A n \in 1..Len(awaiting) : stage[awaiting[n]] = "awaiting"
    /\ \A i \in Instances : stage[i] = "awaiting" => \E n \in 1..Len(awaiting) : awaiting[n] = i
    /\ \A m, n \in 1..Len(awaiting) : m < n => awaiting[m] < awaiting[n]
    /\ awaiting # <<>> => monaco = "loading"

\* The continuation at m comes before the one at n by right: of one kind, the components are in
\* the order they were made; of the two kinds, the later components have still to create.
Before(m, n) ==
    \/ m[1] = n[1] /\ m[2] < n[2]
    \/ m[1] = "create" /\ n[1] = "listen" /\ n[2] < m[2]

\* The continuations that are left.
Queue ==
    /\ \A n \in 1..Len(micro) : stage[micro[n][2]] = "creating"
    /\ \A i \in Instances : stage[i] = "creating" => \E n \in 1..Len(micro) : micro[n][2] = i
    /\ \A m, n \in 1..Len(micro) : m < n => Before(micro[m], micro[n])
    /\ micro # <<>> => awaiting = <<>>

Scheduling == Made /\ InTurn /\ Waiting /\ Queue

\* An editor has a model of its own, and belongs to components that were made.
Owned ==
    \A x \in DOMAIN editors :
        /\ editors[x].model[1] = x
        /\ editors[x].host \in 1..made
        /\ editors[x].listeners \subseteq 1..made

\* The editor of a component has the name of its setting, unless that has moved on.
Given ==
    \A i \in Instances :
        stage[i] \notin {"none", "delay"} =>
            /\ options[i].id \in Ids
            /\ i \notin moved => options[i].id = EditorId(i)

\* A component that was replaced before it was initialised is known to be cut off.
Replaced == \A i \in Instances : i <= made /\ i # shown /\ stage[i] # "initialized" => i \in cutOff

\* To the editors in the place listen the component there and those cut off.
Audience ==
    \A x \in DOMAIN editors : editors[x].host = shown => editors[x].listeners \subseteq cutOff \cup {shown}

\* The component shown listens to its editor, once it is initialised.
Heard ==
    shown # Unset /\ stage[shown] = "initialized" /\ options[shown].id \in DOMAIN editors
        => shown \in editors[options[shown].id].listeners

\* No component has a last value before it is initialised.
Early == \A i \in Instances : stage[i] # "initialized" => lastValue[i] = Unset

\* The component shown, its editor and its setting agree, from the first change on.
Agreed(x) == lastValue[shown] = value[setting[shown]] /\ editors[x].content = value[setting[shown]]
Settled == shown # Unset /\ shown \notin moved /\ stage[shown] = "initialized"
Same ==
    Settled /\ HasEditor(EditorId(shown)) /\ lastValue[shown] # Unset => Agreed(EditorId(shown))

IInv ==
    /\ ModelsAndSchemasFollow
    /\ Scheduling
    /\ Owned /\ Given /\ Replaced /\ Audience /\ Heard
    /\ Early /\ Same

-----------------------------------------------------------------------------
LEMMA PageOpens == Init => IInv
  <1> SUFFICES ASSUME Init PROVE IInv
    OBVIOUS
  <1> USE ValuesAssumption, InitiallyAssumption, BoundsAssumption DEF Init, Instances, Contents
  <1>1. TypeOK
    BY DEF TypeOK, NoOptions
  <1>2. ModelsAndSchemasFollow
    BY <1>1 DEF ModelsAndSchemasFollow, Diagnostics
  <1>3. Made /\ InTurn
    BY DEF Made, InTurn
  <1>4. Waiting /\ Queue
    BY DEF Waiting, Queue
  <1>5. Owned /\ Given /\ Replaced /\ Audience /\ Heard /\ Early /\ Same
    BY DEF Owned, Given, Replaced, Audience, Heard, Early, Same, Settled
  <1> QED
    BY <1>2, <1>3, <1>4, <1>5 DEF IInv, Scheduling

\* What is read from an editor is a content.
LEMMA Readable ==
  ASSUME TypeOK, NEW x PROVE GetValue(x) \in Contents
  BY DEF TypeOK, GetValue, HasEditor, Contents

\* Nothing but the contents of the editors changes.
OnlyContents ==
    /\ DOMAIN editors' = DOMAIN editors
    /\ \A x \in DOMAIN editors :
          /\ editors'[x].model = editors[x].model
          /\ editors'[x].host = editors[x].host
          /\ editors'[x].listeners = editors[x].listeners
          /\ editors'[x].content \in Contents
          /\ editors'[x] \in [model : Models, content : Contents, host : Instances,
                              listeners : SUBSET Instances]
    /\ UNCHANGED <<models, schemas, diagnostics>>

\* A change of content, as its parts.
LEMMA Changing ==
  ASSUME TypeOK, NEW x \in DOMAIN editors, NEW v \in Contents, NEW val \in [Settings -> Contents],
         NEW told, ContentChanges(x, v, val, told)
  PROVE  /\ OnlyContents
         /\ \A y \in DOMAIN editors :
               editors'[y].content = IF y = x THEN v ELSE editors[y].content
         /\ value' \in [Settings -> Contents]
         /\ lastValue' \in [Instances -> Contents \cup {Unset}]
  <1> USE DEF ContentChanges
  <1>1. editors' = [editors EXCEPT ![x].content = v]
    OBVIOUS
  <1>2. \A y \in DOMAIN editors :
           editors[y] \in [model : Models, content : Contents, host : Instances,
                           listeners : SUBSET Instances]
    BY DEF TypeOK
  <1>3. DOMAIN editors' = DOMAIN editors
    BY <1>1
  <1>4. ASSUME NEW y \in DOMAIN editors
        PROVE  /\ editors'[y] = IF y = x THEN [editors[x] EXCEPT !.content = v] ELSE editors[y]
               /\ editors'[y].model = editors[y].model
               /\ editors'[y].host = editors[y].host
               /\ editors'[y].listeners = editors[y].listeners
               /\ editors'[y].content = IF y = x THEN v ELSE editors[y].content
               /\ editors'[y] \in [model : Models, content : Contents, host : Instances,
                                   listeners : SUBSET Instances]
    <2>1. editors'[y] = IF y = x THEN [editors[x] EXCEPT !.content = v] ELSE editors[y]
      BY <1>1, <1>4
    <2>2. CASE y = x
      BY <2>1, <2>2, <1>2
    <2>3. CASE y # x
      BY <2>1, <2>3, <1>2
    <2> QED
      BY <2>1, <2>2, <2>3
  <1>5. OnlyContents
    <2>1. ASSUME NEW y \in DOMAIN editors PROVE editors'[y].content \in Contents
      BY <1>4, <1>2
    <2> QED
      BY <1>3, <1>4, <2>1 DEF OnlyContents
  <1>7. \A y : Reads(y, x, v) \in Contents
    BY Readable DEF Reads
  <1>6. value' \in [Settings -> Contents]
    BY <1>7
  <1>8. lastValue' \in [Instances -> Contents \cup {Unset}]
    BY <1>7 DEF TypeOK
  <1> QED
    BY <1>4, <1>5, <1>6, <1>8

\* New parameters set the value, and the content of the component's editor with it.
LEMMA Telling ==
  ASSUME TypeOK, NEW i \in Instances, NEW val \in [Settings -> Contents], setting'[i] \in Settings,
         ParametersSet(i, val)
  PROVE  /\ OnlyContents
         /\ value' \in [Settings -> Contents]
         /\ lastValue' \in [Instances -> Contents \cup {Unset}]
  <1> DEFINE x == NextId(i)
             v == val[setting'[i]]
  <1>1. v \in Contents
    OBVIOUS
  <1>2. CASE ~ContentChanges(x, v, val, {i}) \/ stage[i] # "initialized" \/ v = lastValue[i] \/ ~HasEditor(x)
    <2>1. UNCHANGED monacoVars
      BY <1>2 DEF ParametersSet
    <2>2. OnlyContents
      BY <2>1 DEF OnlyContents, monacoVars, TypeOK
    <2>3. value' = val
      BY <1>2 DEF ParametersSet
    <2>4. lastValue' = lastValue \/ lastValue' = [lastValue EXCEPT ![i] = v]
      BY <1>2 DEF ParametersSet
    <2> QED
      BY <2>2, <2>3, <2>4, <1>1 DEF TypeOK
  <1>3. CASE HasEditor(x) /\ ContentChanges(x, v, val, {i})
    BY <1>1, <1>3, Changing DEF HasEditor
  <1> QED
    BY <1>2, <1>3

\* What Monaco holds: the editors, each with its model, and the schemas of some of them.
Holdings ==
    /\ \A x \in DOMAIN editors : x \in Ids /\ editors[x] \in [model : Models, content : Contents,
                                                             host : Instances, listeners : SUBSET Instances]
    /\ \A x \in DOMAIN editors : editors[x].model[1] = x
    /\ models = {editors[x].model : x \in DOMAIN editors}
    /\ schemas \subseteq DOMAIN editors
    /\ diagnostics = Diagnostics(schemas, editors)

LEMMA HoldingsAfterContents ==
  ASSUME Holdings, OnlyContents PROVE Holdings'
  <1> USE DEF Holdings, OnlyContents
  <1>1. \A x \in DOMAIN editors' : x \in Ids /\ editors'[x].model[1] = x
    OBVIOUS
  <1>2. models' = {editors'[x].model : x \in DOMAIN editors'}
    OBVIOUS
  <1>3. diagnostics' = Diagnostics(schemas', editors')
    BY DEF Diagnostics
  <1> QED
    BY <1>1, <1>2, <1>3

LEMMA HoldingsAfterDispose ==
  ASSUME Holdings, NEW x, Dispose(x)
  PROVE  /\ Holdings'
         /\ DOMAIN editors' = DOMAIN editors \ {x}
         /\ \A y \in DOMAIN editors' : editors'[y] = editors[y]
  <1> USE DEF Holdings, Dispose
  <1>1. DOMAIN editors' = DOMAIN editors \ {x} /\ \A y \in DOMAIN editors' : editors'[y] = editors[y]
    BY DEF EditorsWithout
  <1>2. \A y \in DOMAIN editors' :
           /\ y \in Ids /\ editors'[y].model[1] = y
           /\ editors'[y] \in [model : Models, content : Contents, host : Instances,
                               listeners : SUBSET Instances]
    BY <1>1
  <1>3. models' = {editors'[y].model : y \in DOMAIN editors'}
    BY <1>1 DEF ModelsWithout, HasEditor
  <1>4. schemas' \subseteq DOMAIN editors'
    BY <1>1 DEF SchemasWithout
  <1>5. diagnostics' = Diagnostics(schemas', editors')
    BY <1>1, <1>4 DEF SchemasWithout, Diagnostics
  <1> QED
    BY <1>1, <1>2, <1>3, <1>4, <1>5

\* An editor is made, by the component shown or one of the same name, in the place.
LEMMA HoldingsAfterInitialize ==
  ASSUME Holdings, TypeOK, NEW i \in Instances, Initialize(i),
         shown # Unset => setting[shown] \in Settings
  PROVE  /\ Holdings'
         /\ \/ UNCHANGED monacoVars
            \/ /\ shown # Unset /\ EditorId(shown) = options[i].id
               /\ DOMAIN editors' = DOMAIN editors \cup {options[i].id}
               /\ editors'[options[i].id] = [model |-> <<options[i].id, i>>, content |-> options[i].content,
                                             host |-> shown, listeners |-> {}]
               /\ \A y \in DOMAIN editors \ {options[i].id} : editors'[y] = editors[y]
  <1> DEFINE x == options[i].id
             new == [model |-> <<x, i>>, content |-> options[i].content, host |-> shown, listeners |-> {}]
  <1>1. CASE shown # Unset /\ EditorId(shown) = x
    <2>1. /\ DOMAIN editors' = DOMAIN editors \cup {x}
          /\ editors'[x] = new
          /\ \A y \in DOMAIN editors \ {x} : editors'[y] = editors[y]
      BY <1>1 DEF Initialize, ContentAtFirst, ListenersAtFirst
    <2>2. x \in Ids
      BY <1>1 DEF EditorId, Ids
    <2>3. new \in [model : Models, content : Contents, host : Instances, listeners : SUBSET Instances]
      BY <1>1, <2>2 DEF TypeOK, Models
    <2>4. \A y \in DOMAIN editors' :
             /\ y \in Ids /\ editors'[y].model[1] = y
             /\ editors'[y] \in [model : Models, content : Contents, host : Instances,
                                 listeners : SUBSET Instances]
      BY <2>1, <2>2, <2>3 DEF Holdings
    <2>5. models' = {editors'[y].model : y \in DOMAIN editors'}
      BY <1>1, <2>1 DEF Initialize, ModelsWithout, HasEditor, Holdings
    <2>6. schemas' = (schemas \ {x}) \cup (IF options[i].schema THEN {x} ELSE {})
      BY <1>1 DEF Initialize, SchemasWithout
    <2>7. schemas' \subseteq DOMAIN editors'
      BY <2>1, <2>6 DEF Holdings
    <2>8. diagnostics' = Diagnostics(schemas', editors')
      <3>1. CASE x \in schemas \/ options[i].schema
        BY <1>1, <3>1 DEF Initialize
      <3>2. CASE x \notin schemas /\ ~options[i].schema
        <4>1. schemas' = schemas /\ diagnostics' = diagnostics
          BY <1>1, <2>6, <3>2 DEF Initialize
        <4>2. \A y \in schemas : y \in DOMAIN editors' /\ editors'[y] = editors[y]
          BY <2>1, <3>2 DEF Holdings
        <4> QED
          BY <4>1, <4>2 DEF Diagnostics, Holdings
      <3> QED
        BY <3>1, <3>2
    <2> QED
      BY <1>1, <2>1, <2>4, <2>5, <2>7, <2>8 DEF Holdings
  <1>2. CASE ~(shown # Unset /\ EditorId(shown) = x)
    <2>1. UNCHANGED monacoVars
      BY <1>2 DEF Initialize
    <2> QED
      BY <2>1 DEF Holdings, monacoVars, Diagnostics
  <1> QED
    BY <1>1, <1>2

LEMMA HoldingsAfterListen ==
  ASSUME Holdings, NEW i \in Instances, Listen(i)
  PROVE  /\ Holdings'
         /\ DOMAIN editors' = DOMAIN editors
         /\ \A y \in DOMAIN editors :
               /\ editors'[y].host = editors[y].host
               /\ editors'[y].content = editors[y].content
               /\ editors'[y].listeners = editors[y].listeners \cup (IF y = options[i].id THEN {i} ELSE {})
  <1> DEFINE x == options[i].id
  <1>1. DOMAIN editors' = DOMAIN editors
    BY DEF Listen
  <1>2. ASSUME NEW y \in DOMAIN editors
        PROVE  /\ editors'[y].model = editors[y].model
               /\ editors'[y].host = editors[y].host
               /\ editors'[y].content = editors[y].content
               /\ editors'[y].listeners = editors[y].listeners \cup (IF y = x THEN {i} ELSE {})
               /\ editors'[y] \in [model : Models, content : Contents, host : Instances,
                                   listeners : SUBSET Instances]
    <2>0. editors[y] \in [model : Models, content : Contents, host : Instances, listeners : SUBSET Instances]
      BY DEF Holdings
    <2>1. CASE y = x
      <3>1. editors'[y] = [editors[y] EXCEPT !.listeners = @ \cup {i}]
        BY <2>1 DEF Listen, HasEditor
      <3> QED
        BY <2>0, <2>1, <3>1
    <2>2. CASE y # x
      <3>1. editors'[y] = editors[y]
        BY <2>2 DEF Listen, HasEditor
      <3> QED
        BY <2>0, <2>2, <3>1
    <2> QED
      BY <2>1, <2>2
  <1>3. UNCHANGED <<models, schemas, diagnostics>>
    BY DEF Listen
  <1>4. models' = {editors'[y].model : y \in DOMAIN editors'}
    BY <1>1, <1>2, <1>3 DEF Holdings
  <1>5. diagnostics' = Diagnostics(schemas', editors')
    BY <1>1, <1>2, <1>3 DEF Holdings, Diagnostics
  <1>6. Holdings'
    BY <1>1, <1>2, <1>3, <1>4, <1>5 DEF Holdings
  <1> QED
    BY <1>1, <1>2, <1>6

-----------------------------------------------------------------------------
\* The kinds of values, but for what Monaco holds.
ControlTypes ==
    /\ shown \in Instances \cup {Unset}
    /\ made \in 0..MaxInstances
    /\ setting \in [Instances -> Settings \cup {Unset}]
    /\ stage \in [Instances -> {"none", "delay", "awaiting", "creating", "initialized"}]
    /\ options \in [Instances -> [id : Ids \cup {Unset}, content : Contents, schema : BOOLEAN]]
    /\ monaco \in {"absent", "loading", "loaded", "failed"}
    /\ awaiting \in Seq(Instances)
    /\ micro \in Seq({"create", "listen"} \X Instances)
    /\ changes \in 0..MaxChanges
    /\ cutOff \subseteq Instances
    /\ moved \subseteq Instances

ValueTypes ==
    /\ value \in [Settings -> Contents]
    /\ lastValue \in [Instances -> Contents \cup {Unset}]

LEMMA TypesByParts == IInv <=> /\ ControlTypes /\ ValueTypes /\ Holdings
                               /\ Scheduling
                               /\ Owned /\ Given /\ Replaced /\ Audience /\ Heard
                               /\ Early /\ Same
  <1>1. Holdings => models \subseteq Models /\ schemas \subseteq Ids /\ diagnostics \subseteq Models
    BY DEF Holdings, Diagnostics
  <1>2. TypeOK /\ Holdings <=> ControlTypes /\ ValueTypes /\ Holdings
    BY <1>1 DEF TypeOK, ControlTypes, ValueTypes, Holdings
  <1>3. ModelsAndSchemasFollow /\ Owned <=> TypeOK /\ Holdings /\ Owned
    BY DEF ModelsAndSchemasFollow, Holdings, Owned, TypeOK
  <1> QED
    BY <1>2, <1>3 DEF IInv

\* The component shown has a setting.
LEMMA ShownHasSetting ==
  ASSUME ControlTypes, Made, shown # Unset
  PROVE  shown \in Instances /\ setting[shown] \in Settings /\ shown = made
  BY BoundsAssumption DEF ControlTypes, Made, Instances

\* The next continuation, and those that are left after it.
LEMMA NextContinuation ==
  ASSUME ControlTypes, micro # <<>>
  PROVE  /\ Head(micro)[1] \in {"create", "listen"} /\ Head(micro)[2] \in Instances
         /\ Head(micro) = micro[1]
         /\ Tail(micro) \in Seq({"create", "listen"} \X Instances)
         /\ Len(micro) \in Nat /\ Len(micro) > 0 /\ Len(Tail(micro)) = Len(micro) - 1
         /\ \A n \in 1..(Len(micro) - 1) : Tail(micro)[n] = micro[n + 1]
  <1>1. micro \in Seq({"create", "listen"} \X Instances)
    BY DEF ControlTypes
  <1>2. Head(micro) = micro[1] /\ micro[1] \in {"create", "listen"} \X Instances
    BY <1>1
  <1> QED
    BY <1>1, <1>2

\* Sequences of continuations.
LEMMA Single ==
  ASSUME NEW S, NEW x \in S PROVE <<x>> \in Seq(S)
  OBVIOUS

LEMMA Nothing ==
  ASSUME NEW S PROVE <<>> \in Seq(S)
  OBVIOUS

LEMMA SomeContinuation ==
  ASSUME NEW i \in Instances, NEW m,
         m = <<<<"create", i>>>> \/ m = <<<<"listen", i>>>> \/ m = <<>>
  PROVE  m \in Seq({"create", "listen"} \X Instances)
  <1>1. /\ <<"create", i>> \in {"create", "listen"} \X Instances
        /\ <<"listen", i>> \in {"create", "listen"} \X Instances
    OBVIOUS
  <1>2. /\ <<<<"create", i>>>> \in Seq({"create", "listen"} \X Instances)
        /\ <<<<"listen", i>>>> \in Seq({"create", "listen"} \X Instances)
    BY <1>1, Single, Zenon
  <1>3. <<>> \in Seq({"create", "listen"} \X Instances)
    OBVIOUS
  <1> QED
    BY <1>2, <1>3, Zenon

LEMMA Continuations ==
  ASSUME NEW q \in Seq(Instances), NEW step \in {"create", "listen"}, NEW m,
         m = [k \in 1..Len(q) |-> <<step, q[k]>>]
  PROVE  m \in Seq({"create", "listen"} \X Instances)
  <1> DEFINE F(k) == <<step, q[k]>>
  <1>1. \A k \in 1..Len(q) : F(k) \in {"create", "listen"} \X Instances
    OBVIOUS
  <1>2. m = [k \in 1..Len(q) |-> F(k)]
    OBVIOUS
  <1> HIDE DEF F
  <1> QED
    BY <1>1, <1>2

\* Where control stands, after each step.
LEMMA ControlStep == IInv /\ [Next]_vars => ControlTypes'
  <1> SUFFICES ASSUME IInv, [Next]_vars PROVE ControlTypes'
    OBVIOUS
  <1>t. ControlTypes /\ ValueTypes /\ Made
    BY TypesByParts DEF IInv, Scheduling
  <1> USE <1>t, BoundsAssumption DEF ControlTypes
  <1>1. CASE UNCHANGED vars
    BY <1>1 DEF vars, component
  <1>2. ASSUME NEW s \in Settings, Show(s) PROVE ControlTypes'
    BY <1>2 DEF Show, Instances
  <1>3. ASSUME NEW s \in Settings, Reuse(s) PROVE ControlTypes'
    <2>1. setting' \in [Instances -> Settings \cup {Unset}] /\ moved' \subseteq Instances
      BY <1>3, ShownHasSetting DEF Reuse
    <2> QED
      BY <1>3, <2>1 DEF Reuse
  <1>4. CASE Hide
    BY <1>4, ShownHasSetting DEF Hide
  <1>5. ASSUME NEW i \in Instances, DelayEnds(i) PROVE ControlTypes'
    <2>0. setting[i] \in Settings
      BY <1>5 DEF DelayEnds, Made
    <2>1. options' \in [Instances -> [id : Ids \cup {Unset}, content : Contents, schema : BOOLEAN]]
      <3>1. [id |-> EditorId(i), content |-> value[setting[i]], schema |-> setting[i] \in WithSchema]
               \in [id : Ids \cup {Unset}, content : Contents, schema : BOOLEAN]
        BY <2>0 DEF EditorId, Ids, ValueTypes
      <3> QED
        BY <1>5, <3>1 DEF DelayEnds
    <2>2. /\ stage' \in [Instances -> {"none", "delay", "awaiting", "creating", "initialized"}]
          /\ monaco' \in {"absent", "loading", "loaded", "failed"}
      BY <1>5 DEF DelayEnds, LoadMonaco
    <2>3. awaiting' \in Seq(Instances)
      BY <1>5 DEF DelayEnds, LoadMonaco
    <2>4. micro' \in Seq({"create", "listen"} \X Instances)
      <3>1. micro' = <<<<"create", i>>>> \/ micro' = <<<<"listen", i>>>> \/ micro' = <<>>
        BY <1>5 DEF DelayEnds, LoadMonaco
      <3> QED
        BY <3>1, SomeContinuation
    <2> QED
      BY <1>5, <2>1, <2>2, <2>3, <2>4 DEF DelayEnds
  <1>6. ASSUME NEW as \in {"loaded", "failed"}, NEW step \in {"create", "listen"}, Settle(as, step)
        PROVE  /\ micro' \in Seq({"create", "listen"} \X Instances) /\ awaiting' \in Seq(Instances)
               /\ monaco' \in {"absent", "loading", "loaded", "failed"}
               /\ stage' \in [Instances -> {"none", "delay", "awaiting", "creating", "initialized"}]
    <2>1. micro' \in Seq({"create", "listen"} \X Instances)
      <3>1. micro' = [k \in 1..Len(awaiting) |-> <<step, awaiting[k]>>]
        BY <1>6 DEF Settle
      <3>2. awaiting \in Seq(Instances)
        OBVIOUS
      <3> QED
        BY <3>1, <3>2, Continuations
    <2>2. stage' \in [Instances -> {"none", "delay", "awaiting", "creating", "initialized"}]
      BY <1>6 DEF Settle
    <2>3. awaiting' = <<>> /\ monaco' \in {"absent", "loading", "loaded", "failed"}
      BY <1>6 DEF Settle
    <2>4. awaiting' \in Seq(Instances)
      BY <2>3, Nothing, Zenon
    <2> QED
      BY <2>1, <2>2, <2>3, <2>4
  <1>7. CASE MonacoLoads \/ MonacoFails
    BY <1>6, <1>7 DEF MonacoLoads, MonacoFails
  <1>8. CASE Creates
    <2>1. micro' \in Seq({"create", "listen"} \X Instances)
      BY <1>8, NextContinuation DEF Creates
    <2> QED
      BY <1>8, <2>1 DEF Creates, component
  <1>9. CASE Initialized
    BY <1>9, NextContinuation DEF Initialized
  <1>10. ASSUME NEW x \in Ids, NEW v \in Values, Type(x, v) PROVE ControlTypes'
    BY <1>10 DEF Type, component, Change
  <1>11. ASSUME NEW s \in Settings, NEW v \in Values, ChangeOutside(s, v) PROVE ControlTypes'
    BY <1>11 DEF ChangeOutside, component, Change
  <1>12. CASE FormatJson
    BY <1>12 DEF FormatJson, component, Change
  <1> QED
    BY <1>1, <1>2, <1>3, <1>4, <1>5, <1>7, <1>8, <1>9, <1>10, <1>11, <1>12 DEF Next

LEMMA ContentsKept ==
  ASSUME Holdings, UNCHANGED monacoVars PROVE OnlyContents
  BY DEF Holdings, OnlyContents, monacoVars

\* But for the disposal and the making of editors, and the listeners that come,
\* a step changes no more than their contents.
LEMMA ContentsStep ==
  ASSUME IInv, [Next]_vars, ~Hide, ~Creates, ~Initialized
  PROVE  OnlyContents /\ ValueTypes'
  <1>t. TypeOK /\ ControlTypes /\ ValueTypes /\ Made /\ Holdings
    BY TypesByParts DEF IInv, Scheduling, ModelsAndSchemasFollow
  <1>v. ASSUME value' \in [Settings -> Contents], lastValue' \in [Instances -> Contents \cup {Unset}]
        PROVE  ValueTypes'
    BY <1>v DEF ValueTypes
  <1>q. ASSUME UNCHANGED <<value, lastValue, monacoVars>> PROVE OnlyContents /\ ValueTypes'
    BY <1>q, <1>t, ContentsKept DEF ValueTypes
  <1>1. CASE UNCHANGED vars
    BY <1>1, <1>q DEF vars
  <1>2. ASSUME NEW s \in Settings, Show(s) PROVE OnlyContents /\ ValueTypes'
    BY <1>2, <1>q DEF Show
  <1>3. ASSUME NEW s \in Settings, Reuse(s) PROVE OnlyContents /\ ValueTypes'
    <2>1. shown \in Instances /\ setting'[shown] \in Settings
      BY <1>3, <1>t, ShownHasSetting DEF Reuse, ControlTypes
    <2>2. value \in [Settings -> Contents] /\ ParametersSet(shown, value)
      BY <1>3, <1>t DEF Reuse, ValueTypes
    <2> QED
      BY <2>1, <2>2, <1>t, <1>v, Telling
  <1>4. ASSUME NEW i \in Instances, DelayEnds(i) PROVE OnlyContents /\ ValueTypes'
    BY <1>4, <1>q DEF DelayEnds
  <1>5. CASE MonacoLoads \/ MonacoFails
    BY <1>5, <1>q DEF MonacoLoads, MonacoFails
  <1>6. ASSUME NEW x \in Ids, NEW v \in Values, Type(x, v) PROVE OnlyContents /\ ValueTypes'
    <2>1. x \in DOMAIN editors /\ v \in Contents /\ value \in [Settings -> Contents]
      BY <1>6, <1>t DEF Type, HasEditor, ValueTypes, Contents
    <2>2. ContentChanges(x, v, value, {})
      BY <1>6 DEF Type
    <2> QED
      BY <2>1, <2>2, <1>t, <1>v, Changing
  <1>7. ASSUME NEW s \in Settings, NEW v \in Values, ChangeOutside(s, v)
        PROVE  OnlyContents /\ ValueTypes'
    <2> DEFINE val == [value EXCEPT ![s] = v]
    <2>1. val \in [Settings -> Contents]
      BY <1>t DEF ValueTypes, Contents
    <2>2. CASE shown = Unset
      <3>1. value' = val /\ UNCHANGED <<lastValue, monacoVars>>
        BY <1>7, <2>2 DEF ChangeOutside
      <3> HIDE DEF val
      <3> QED
        BY <3>1, <2>1, <1>t, <1>v, ContentsKept DEF ValueTypes
    <2>3. CASE shown # Unset
      <3>1. ParametersSet(shown, val)
        BY <1>7, <2>3 DEF ChangeOutside
      <3>2. shown \in Instances /\ setting'[shown] \in Settings
        BY <1>7, <2>3, <1>t, ShownHasSetting DEF ChangeOutside, component
      <3> HIDE DEF val
      <3> QED
        BY <3>1, <3>2, <2>1, <1>t, <1>v, Telling
    <2> QED
      BY <2>2, <2>3
  <1>8. CASE FormatJson
    <2>1. GetValue(EditorId(shown)) \in Contents
      BY <1>t, Readable
    <2>2. value' \in [Settings -> Contents] /\ UNCHANGED <<lastValue, monacoVars>>
      BY <1>8, <2>1, <1>t DEF FormatJson, ValueTypes
    <2> QED
      BY <2>2, <1>t, <1>v, ContentsKept DEF ValueTypes
  <1> QED
    BY <1>1, <1>2, <1>3, <1>4, <1>5, <1>6, <1>7, <1>8 DEF Next

LEMMA TypeStep == IInv /\ [Next]_vars => ControlTypes' /\ ValueTypes' /\ Holdings'
  <1> SUFFICES ASSUME IInv, [Next]_vars PROVE ControlTypes' /\ ValueTypes' /\ Holdings'
    OBVIOUS
  <1>t. TypeOK /\ ControlTypes /\ ValueTypes /\ Made /\ Holdings
    BY TypesByParts DEF IInv, Scheduling, ModelsAndSchemasFollow
  <1>q. ASSUME UNCHANGED <<value, lastValue>> PROVE ValueTypes'
    BY <1>q, <1>t DEF ValueTypes
  <1>c. ControlTypes'
    BY ControlStep
  <1>1. CASE ~Hide /\ ~Creates /\ ~Initialized
    BY <1>1, <1>c, <1>t, ContentsStep, HoldingsAfterContents
  <1>2. CASE Hide
    <2>1. CASE stage[shown] = "initialized"
      BY <1>2, <2>1, <1>c, <1>t, <1>q, HoldingsAfterDispose DEF Hide
    <2>2. CASE stage[shown] # "initialized"
      BY <1>2, <2>2, <1>c, <1>t, <1>q, HoldingsAfterContents, ContentsKept DEF Hide
    <2> QED
      BY <2>1, <2>2
  <1>3. CASE Creates
    <2>1. Initialize(Head(micro)[2]) /\ UNCHANGED <<value, lastValue>> /\ micro # <<>>
      BY <1>3 DEF Creates
    <2> QED
      BY <2>1, <1>c, <1>t, <1>q, NextContinuation, HoldingsAfterInitialize, ShownHasSetting
  <1>4. CASE Initialized
    <2>1. Listen(Head(micro)[2]) /\ UNCHANGED <<value, lastValue>> /\ micro # <<>>
      BY <1>4 DEF Initialized
    <2> QED
      BY <2>1, <1>c, <1>t, <1>q, NextContinuation, HoldingsAfterListen
  <1> QED
    BY <1>1, <1>2, <1>3, <1>4

-----------------------------------------------------------------------------
\* A component gets its setting when it is made, and keeps to its place.
LEMMA MadeStep == IInv /\ [Next]_vars => Made'
  <1> SUFFICES ASSUME IInv, [Next]_vars PROVE Made'
    OBVIOUS
  <1>t. ControlTypes /\ Made
    BY TypesByParts DEF IInv, Scheduling
  <1> USE <1>t, BoundsAssumption, ValuesAssumption DEF ControlTypes, Made, Instances
  <1>1. CASE UNCHANGED vars
    BY <1>1 DEF vars, component
  <1>2. ASSUME NEW s \in Settings, Show(s) PROVE Made'
    BY <1>2 DEF Show
  <1>3. ASSUME NEW s \in Settings, Reuse(s) PROVE Made'
    BY <1>3 DEF Reuse
  <1>4. CASE Hide
    BY <1>4 DEF Hide
  <1>5. ASSUME NEW i \in Instances, DelayEnds(i) PROVE Made'
    <2>1. UNCHANGED <<shown, made, setting>> /\ stage[i] = "delay"
          /\ (stage' = [stage EXCEPT ![i] = "awaiting"] \/ stage' = [stage EXCEPT ![i] = "creating"])
      BY <1>5 DEF DelayEnds, LoadMonaco
    <2> QED
      BY <2>1
  <1>6. CASE MonacoLoads \/ MonacoFails
    BY <1>6 DEF MonacoLoads, MonacoFails, Settle
  <1>7. CASE Creates
    BY <1>7 DEF Creates, component
  <1>8. CASE Initialized
    <2>1. Head(micro)[2] \in Instances /\ stage[Head(micro)[2]] = "creating"
      BY <1>8, NextContinuation DEF Initialized, IInv, Scheduling, Queue
    <2> QED
      BY <1>8, <2>1 DEF Initialized
  <1>9. ASSUME NEW x \in Ids, NEW v \in Values, Type(x, v) PROVE Made'
    BY <1>9 DEF Type, component
  <1>10. ASSUME NEW s \in Settings, NEW v \in Values, ChangeOutside(s, v) PROVE Made'
    BY <1>10 DEF ChangeOutside, component
  <1>11. CASE FormatJson
    BY <1>11 DEF FormatJson, component
  <1> QED
    BY <1>1, <1>2, <1>3, <1>4, <1>5, <1>6, <1>7, <1>8, <1>9, <1>10, <1>11 DEF Next

\* No continuation is left when a task starts, and no component is creating.
LEMMA NobodyCreating ==
  ASSUME ControlTypes, Queue, Task PROVE \A i \in Instances : stage[i] # "creating"
  BY DEF ControlTypes, Queue, Task

\* InTurn, Waiting and Queue, after each step that moves a component on.
Turns == InTurn /\ Waiting /\ Queue

LEMMA TurnAfterDelay ==
  ASSUME ControlTypes, Made, Turns, NEW i \in Instances, DelayEnds(i) PROVE Turns'
  <1>1. /\ stage[i] = "delay" /\ micro = <<>> /\ \A j \in 1..i - 1 : stage[j] # "delay"
        /\ \A j \in Instances : stage[j] # "creating"
        /\ i <= made
    BY NobodyCreating DEF DelayEnds, Task, Turns, Made, ControlTypes, Instances
  <1>2. \A j \in Instances : i < j => stage[j] \in {"none", "delay"}
    BY <1>1 DEF Turns, InTurn, ControlTypes
  <1>3. \A j \in Instances : j < i => stage[j] \in {"awaiting", "initialized"}
    BY <1>1 DEF Made, ControlTypes, Instances
  <1>4. CASE monaco \in {"absent", "loading"}
    <2>1. /\ monaco' = "loading" /\ micro' = <<>>
          /\ awaiting' = Append(awaiting, i) /\ stage' = [stage EXCEPT ![i] = "awaiting"]
      BY <1>4 DEF DelayEnds, LoadMonaco
    <2>2. InTurn'
      BY <1>1, <1>2, <1>3, <2>1 DEF Turns, InTurn, ControlTypes, Instances
    <2>3. /\ Len(awaiting') = Len(awaiting) + 1 /\ Len(awaiting) \in Nat
          /\ awaiting'[Len(awaiting) + 1] = i
          /\ \A n \in 1..Len(awaiting) : awaiting'[n] = awaiting[n]
      BY <2>1 DEF ControlTypes
    <2>4. \A n \in 1..Len(awaiting) : awaiting[n] \in Instances /\ awaiting[n] < i
      <3>1. \A n \in 1..Len(awaiting) : awaiting[n] \in Instances /\ stage[awaiting[n]] = "awaiting"
        BY DEF ControlTypes, Turns, Waiting
      <3> QED
        BY <3>1, <1>1, <1>2 DEF Instances
    <2>5. \A n \in 1..Len(awaiting') : stage'[awaiting'[n]] = "awaiting"
      BY <2>1, <2>3, <2>4 DEF Turns, Waiting, ControlTypes
    <2>6. ASSUME NEW j \in Instances, stage'[j] = "awaiting"
          PROVE  \E n \in 1..Len(awaiting') : awaiting'[n] = j
      <3>1. CASE j = i
        BY <2>3, <3>1
      <3>2. CASE j # i
        <4>1. PICK n \in 1..Len(awaiting) : awaiting[n] = j
          BY <2>1, <2>6, <3>2 DEF Turns, Waiting, ControlTypes
        <4> QED
          BY <2>3, <4>1
      <3> QED
        BY <3>1, <3>2
    <2>7. \A m, n \in 1..Len(awaiting') : m < n => awaiting'[m] < awaiting'[n]
      BY <2>3, <2>4 DEF Turns, Waiting
    <2>8. Waiting'
      BY <2>1, <2>5, <2>6, <2>7 DEF Waiting
    <2>9. Queue'
      BY <1>1, <2>1 DEF Queue, ControlTypes
    <2> QED
      BY <2>2, <2>8, <2>9 DEF Turns
  <1>5. CASE monaco \notin {"absent", "loading"}
    <2>1. awaiting = <<>> /\ \A j \in Instances : stage[j] # "awaiting"
      BY <1>5 DEF Turns, Waiting
    <2>2. /\ monaco' = monaco /\ awaiting' = <<>> /\ stage' = [stage EXCEPT ![i] = "creating"]
          /\ micro' = <<<<"create", i>>>> \/ micro' = <<<<"listen", i>>>>
      BY <1>5, <2>1 DEF DelayEnds, LoadMonaco, ControlTypes
    <2>3. InTurn'
      BY <1>1, <1>2, <1>3, <2>1, <2>2 DEF Turns, InTurn, ControlTypes, Instances
    <2>4. Waiting'
      BY <2>1, <2>2 DEF Waiting, ControlTypes
    <2>5. Len(micro') = 1 /\ micro'[1][2] = i
      BY <2>2
    <2>6. Queue'
      BY <1>1, <2>2, <2>5 DEF Queue, ControlTypes
    <2> QED
      BY <2>3, <2>4, <2>6 DEF Turns
  <1> QED
    BY <1>4, <1>5

LEMMA TurnAfterLoad ==
  ASSUME ControlTypes, Made, Turns, Task, NEW as, NEW step, Settle(as, step), UNCHANGED made
  PROVE  Turns'
  <1>1. /\ awaiting' = <<>>
        /\ stage' = [i \in Instances |-> IF stage[i] = "awaiting" THEN "creating" ELSE stage[i]]
        /\ Len(micro') = Len(awaiting) /\ Len(awaiting) \in Nat
        /\ \A n \in 1..Len(awaiting) : micro'[n][1] = step /\ micro'[n][2] = awaiting[n]
    BY DEF Settle, ControlTypes
  <1>2. \A j \in Instances : stage[j] # "creating"
    BY NobodyCreating DEF Turns
  <1>3. InTurn'
    <2> SUFFICES ASSUME NEW i \in Instances, NEW j \in Instances, i < j
                 PROVE  /\ stage'[j] = "awaiting" => stage'[i] # "delay"
                        /\ stage'[j] = "creating" => stage'[i] \in {"creating", "initialized"}
                        /\ stage'[j] = "initialized" => stage'[i] = "initialized"
      BY DEF InTurn
    <2>1. stage[j] = "awaiting" => stage[i] \in {"awaiting", "initialized"}
      BY <1>2 DEF Turns, InTurn, Made, ControlTypes, Instances
    <2> QED
      BY <1>1, <1>2, <2>1 DEF Turns, InTurn, ControlTypes
  <1>4. Waiting'
    BY <1>1 DEF Waiting, ControlTypes
  <1>5. \A n \in 1..Len(awaiting) : awaiting[n] \in Instances
    BY DEF ControlTypes
  <1>6. \A n \in 1..Len(micro') : stage'[micro'[n][2]] = "creating"
    BY <1>1, <1>5 DEF Turns, Waiting
  <1>7. \A i \in Instances : stage'[i] = "creating" => \E n \in 1..Len(micro') : micro'[n][2] = i
    BY <1>1, <1>2 DEF Turns, Waiting
  <1>8. \A m, n \in 1..Len(micro') : m < n => Before(micro'[m], micro'[n])
    BY <1>1 DEF Turns, Waiting, Before
  <1>9. Queue'
    BY <1>1, <1>6, <1>7, <1>8 DEF Queue
  <1> QED
    BY <1>3, <1>4, <1>9 DEF Turns

\* The first continuation goes to the end of the queue as its component's other one.
LEMMA TurnAfterCreation ==
  ASSUME ControlTypes, Turns, Creates PROVE Turns'
  <1> DEFINE k == Head(micro)[2]
             L == Len(micro)
  <1>1. /\ UNCHANGED <<stage, awaiting, monaco>> /\ micro # <<>>
        /\ micro[1][1] = "create" /\ micro[1][2] = k /\ k \in Instances
        /\ micro' = Append(Tail(micro), <<"listen", k>>)
    BY NextContinuation DEF Creates, component
  <1>2. /\ L \in Nat /\ L > 0 /\ Len(micro') = L
        /\ \A n \in 1..(L - 1) : micro'[n] = micro[n + 1]
        /\ micro'[L] = <<"listen", k>>
    BY <1>1, NextContinuation DEF ControlTypes
  <1>3. micro'[L][1] = "listen" /\ micro'[L][2] = k
    BY <1>2
  <1>s. micro \in Seq({"create", "listen"} \X Instances)
    BY DEF ControlTypes
  <1>4. \A n \in 1..L : micro[n][2] \in Instances /\ micro[n][1] \in {"create", "listen"}
    BY <1>s
  <1> HIDE DEF k, L
  <1>5. \A n \in 1..L : stage[micro[n][2]] = "creating"
    BY DEF Turns, Queue, L
  <1>6. \A m, n \in 1..L : m < n => Before(micro[m], micro[n])
    BY DEF Turns, Queue, L
  <1>7. \A n \in 1..L : stage[micro'[n][2]] = "creating"
    <2> TAKE n \in 1..L
    <2>1. CASE n = L
      BY <1>1, <1>2, <1>3, <1>5, <2>1
    <2>2. CASE n # L
      BY <1>2, <1>5, <2>2
    <2> QED
      BY <2>1, <2>2
  <1>8. ASSUME NEW i \in Instances, stage[i] = "creating" PROVE \E n \in 1..L : micro'[n][2] = i
    <2>1. PICK n \in 1..L : micro[n][2] = i
      BY <1>8 DEF Turns, Queue, L
    <2>2. CASE n = 1
      BY <1>1, <1>2, <1>3, <2>1, <2>2
    <2>3. CASE n # 1
      <3>1. n - 1 \in 1..(L - 1) /\ n - 1 \in 1..L /\ (n - 1) + 1 = n
        BY <1>2, <2>3
      <3>2. micro'[n - 1] = micro[n]
        BY <1>2, <3>1
      <3> QED
        BY <2>1, <3>1, <3>2
    <2> QED
      BY <2>2, <2>3
  <1>9. ASSUME NEW m \in 1..L, NEW n \in 1..L, m < n PROVE Before(micro'[m], micro'[n])
    <2>1. /\ m \in 1..(L - 1) /\ m + 1 \in 1..L /\ 1 \in 1..L /\ 1 < m + 1
          /\ micro'[m] = micro[m + 1]
      BY <1>2, <1>9
    <2>2. CASE n = L
      <3>1. Before(micro[1], micro[m + 1])
        BY <1>6, <2>1
      <3> QED
        BY <1>1, <1>3, <1>4, <2>1, <2>2, <3>1 DEF Before
    <2>3. CASE n # L
      <3>1. n \in 1..(L - 1) /\ n + 1 \in 1..L /\ m + 1 < n + 1 /\ micro'[n] = micro[n + 1]
        BY <1>2, <1>9, <2>3
      <3> QED
        BY <1>6, <2>1, <3>1
    <2> QED
      BY <2>2, <2>3
  <1>10. Queue'
    <2>1. Len(micro') = L /\ stage' = stage
      BY <1>1, <1>2
    <2>2. awaiting' = <<>>
      BY <1>1 DEF Turns, Queue
    <2> QED
      BY <2>1, <2>2, <1>7, <1>8, <1>9 DEF Queue
  <1>11. InTurn' /\ Waiting'
    BY <1>1 DEF Turns, InTurn, Waiting
  <1> QED
    BY <1>10, <1>11 DEF Turns

\* The component that is initialised is the first of those on their way.
LEMMA FirstComesFirst ==
  ASSUME ControlTypes, Made, Turns, micro # <<>>, Head(micro)[1] = "listen"
  PROVE  /\ Head(micro)[2] \in Instances /\ stage[Head(micro)[2]] = "creating"
         /\ \A n \in 2..Len(micro) : Head(micro)[2] < micro[n][2]
         /\ \A i \in Instances : i < Head(micro)[2] => stage[i] = "initialized"
  <1> DEFINE k == Head(micro)[2]
  <1>1. /\ k \in Instances /\ micro[1][1] = "listen" /\ micro[1][2] = k
        /\ Len(micro) \in Nat /\ Len(micro) > 0
    BY NextContinuation
  <1> HIDE DEF k
  <1>2. stage[k] = "creating"
    BY <1>1 DEF Turns, Queue
  <1>3. ASSUME NEW n \in 2..Len(micro) PROVE k < micro[n][2]
    <2>1. Before(micro[1], micro[n])
      BY <1>1 DEF Turns, Queue
    <2> QED
      BY <1>1, <2>1 DEF Before
  <1>4. ASSUME NEW i \in Instances, i < k PROVE stage[i] = "initialized"
    <2>1. stage[i] \in {"creating", "initialized"}
      BY <1>1, <1>2, <1>4 DEF Turns, InTurn
    <2>2. ASSUME stage[i] = "creating" PROVE FALSE
      <3>1. PICK n \in 1..Len(micro) : micro[n][2] = i
        BY <2>2 DEF Turns, Queue
      <3>2. n = 1 \/ n \in 2..Len(micro)
        BY <1>1
      <3> QED
        BY <1>1, <1>3, <1>4, <3>1, <3>2 DEF Instances
    <2> QED
      BY <2>1, <2>2
  <1> QED
    BY <1>1, <1>2, <1>3, <1>4 DEF k

LEMMA TurnAfterInitialization ==
  ASSUME ControlTypes, Made, Turns, Initialized PROVE Turns'
  <1> DEFINE k == Head(micro)[2]
             L == Len(micro)
  <1>1. /\ UNCHANGED <<awaiting, monaco>> /\ micro # <<>> /\ Head(micro)[1] = "listen"
        /\ stage' = [stage EXCEPT ![k] = "initialized"] /\ micro' = Tail(micro)
    BY DEF Initialized
  <1>2. /\ k \in Instances /\ stage[k] = "creating"
        /\ \A n \in 2..L : k < micro[n][2]
        /\ \A i \in Instances : i < k => stage[i] = "initialized"
    BY <1>1, FirstComesFirst
  <1>3. /\ L \in Nat /\ L > 0 /\ Len(micro') = L - 1 /\ micro[1][2] = k
        /\ \A n \in 1..(L - 1) : micro'[n] = micro[n + 1]
    BY <1>1, NextContinuation
  <1>4. \A n \in 1..L : micro[n][2] \in Instances
    BY DEF ControlTypes
  <1> HIDE DEF k, L
  <1>5. InTurn'
    BY <1>1, <1>2 DEF Turns, InTurn, ControlTypes
  <1>6. Waiting'
    <2>1. awaiting = <<>>
      BY <1>1 DEF Turns, Queue
    <2> QED
      BY <1>1, <1>2, <2>1 DEF Turns, Waiting, ControlTypes
  <1>7. \A n \in 1..(L - 1) : stage'[micro'[n][2]] = "creating"
    <2> TAKE n \in 1..(L - 1)
    <2>1. n + 1 \in 2..L /\ n + 1 \in 1..L /\ micro'[n] = micro[n + 1]
      BY <1>3
    <2>2. stage[micro[n + 1][2]] = "creating" /\ micro[n + 1][2] \in Instances /\ k < micro[n + 1][2]
      BY <1>2, <1>4, <2>1 DEF Turns, Queue, L
    <2> QED
      BY <1>1, <1>2, <2>1, <2>2 DEF ControlTypes, Instances
  <1>8. ASSUME NEW i \in Instances, stage'[i] = "creating" PROVE \E n \in 1..(L - 1) : micro'[n][2] = i
    <2>1. i # k /\ stage[i] = "creating"
      BY <1>1, <1>2, <1>8 DEF ControlTypes
    <2>2. PICK n \in 1..L : micro[n][2] = i
      BY <2>1 DEF Turns, Queue, L
    <2>3. n - 1 \in 1..(L - 1) /\ (n - 1) + 1 = n
      BY <1>3, <2>1, <2>2
    <2>4. micro'[n - 1] = micro[n]
      BY <1>3, <2>3
    <2> QED
      BY <2>2, <2>3, <2>4
  <1>9. ASSUME NEW m \in 1..(L - 1), NEW n \in 1..(L - 1), m < n PROVE Before(micro'[m], micro'[n])
    <2>1. m + 1 \in 1..L /\ n + 1 \in 1..L /\ m + 1 < n + 1
      BY <1>3, <1>9
    <2>2. Before(micro[m + 1], micro[n + 1])
      BY <2>1 DEF Turns, Queue, L
    <2> QED
      BY <1>3, <2>2
  <1>10. Queue'
    <2>1. awaiting' = <<>>
      BY <1>1 DEF Turns, Queue
    <2> QED
      BY <2>1, <1>3, <1>7, <1>8, <1>9 DEF Queue
  <1> QED
    BY <1>5, <1>6, <1>10 DEF Turns

LEMMA SchedulingStep == IInv /\ [Next]_vars => Scheduling'
  <1> SUFFICES ASSUME IInv, [Next]_vars PROVE Turns'
    BY MadeStep DEF Scheduling, Turns
  <1>t. ControlTypes /\ Made /\ Turns
    BY TypesByParts DEF IInv, Scheduling, Turns
  <1>q. ASSUME UNCHANGED <<stage, awaiting, monaco, micro>> PROVE Turns'
    BY <1>q, <1>t DEF Turns, InTurn, Waiting, Queue
  <1>1. CASE UNCHANGED vars
    BY <1>1, <1>q DEF vars, component
  <1>2. ASSUME NEW s \in Settings, Show(s) PROVE Turns'
    <2>1. /\ stage' = [stage EXCEPT ![made + 1] = "delay"] /\ UNCHANGED <<awaiting, monaco, micro>>
          /\ made + 1 \in Instances /\ stage[made + 1] = "none"
          /\ \A j \in Instances : made + 1 < j => stage[j] = "none"
      BY <1>2, <1>t, BoundsAssumption DEF Show, Made, ControlTypes, Instances
    <2>2. InTurn'
      BY <2>1, <1>t DEF Turns, InTurn, ControlTypes
    <2>3. Waiting'
      <3>1. \A n \in 1..Len(awaiting) : awaiting[n] \in Instances
        BY <1>t DEF ControlTypes
      <3> QED
        BY <2>1, <3>1, <1>t DEF Turns, Waiting, ControlTypes
    <2>4. Queue'
      BY <1>2, <2>1, <1>t, NobodyCreating DEF Show, Task, Turns, Queue, ControlTypes
    <2> QED
      BY <2>2, <2>3, <2>4 DEF Turns
  <1>3. ASSUME NEW s \in Settings, Reuse(s) PROVE Turns'
    BY <1>3, <1>q DEF Reuse
  <1>4. CASE Hide
    BY <1>4, <1>q DEF Hide
  <1>5. ASSUME NEW i \in Instances, DelayEnds(i) PROVE Turns'
    BY <1>5, <1>t, TurnAfterDelay
  <1>6. CASE MonacoLoads \/ MonacoFails
    BY <1>6, <1>t, TurnAfterLoad DEF MonacoLoads, MonacoFails
  <1>7. CASE Creates
    BY <1>7, <1>t, TurnAfterCreation
  <1>8. CASE Initialized
    BY <1>8, <1>t, TurnAfterInitialization
  <1>9. ASSUME NEW x \in Ids, NEW v \in Values, Type(x, v) PROVE Turns'
    BY <1>9, <1>q DEF Type, component
  <1>10. ASSUME NEW s \in Settings, NEW v \in Values, ChangeOutside(s, v) PROVE Turns'
    BY <1>10, <1>q DEF ChangeOutside, component
  <1>11. CASE FormatJson
    BY <1>11, <1>q DEF FormatJson, component
  <1> QED
    BY <1>1, <1>2, <1>3, <1>4, <1>5, <1>6, <1>7, <1>8, <1>9, <1>10, <1>11 DEF Next

-----------------------------------------------------------------------------
\* Once the component shown is initialised, no component is on its way any more.
LEMMA NobodyOnTheWay ==
  ASSUME ControlTypes, Scheduling, shown # Unset, stage[shown] = "initialized"
  PROVE  /\ \A i \in Instances : stage[i] \in {"none", "initialized"}
         /\ micro = <<>>
  <1>1. shown \in Instances /\ shown = made
    BY ShownHasSetting DEF Scheduling
  <1>2. \A i \in Instances : stage[i] \in {"none", "initialized"}
    BY <1>1 DEF Scheduling, Made, InTurn, ControlTypes, Instances
  <1>3. ASSUME micro # <<>> PROVE FALSE
    BY <1>2, <1>3, NextContinuation DEF Scheduling, Queue
  <1> QED
    BY <1>2, <1>3

\* A component is initialised once and stays so, and only those that are have a last value.
LEMMA InitializedStays ==
  ASSUME IInv, [Next]_vars
  PROVE  \A i \in Instances : stage[i] = "initialized" => stage'[i] = "initialized"
  <1> DEFINE Goal == \A i \in Instances : stage[i] = "initialized" => stage'[i] = "initialized"
  <1>t. ControlTypes /\ Made
    BY TypesByParts DEF IInv, Scheduling
  <1> USE <1>t DEF ControlTypes
  <1>1. CASE UNCHANGED vars
    BY <1>1 DEF vars, component
  <1>2. ASSUME NEW s \in Settings, Show(s) PROVE Goal
    BY <1>2 DEF Show, Made, Instances
  <1>3. ASSUME NEW s \in Settings, Reuse(s) PROVE Goal
    BY <1>3 DEF Reuse
  <1>4. CASE Hide \/ Creates \/ FormatJson
    BY <1>4 DEF Hide, Creates, FormatJson, component
  <1>5. ASSUME NEW i \in Instances, DelayEnds(i) PROVE Goal
    <2>1. /\ stage[i] = "delay"
          /\ stage' = [stage EXCEPT ![i] = "awaiting"] \/ stage' = [stage EXCEPT ![i] = "creating"]
      BY <1>5 DEF DelayEnds, LoadMonaco
    <2> QED
      BY <2>1
  <1>6. CASE MonacoLoads \/ MonacoFails
    BY <1>6 DEF MonacoLoads, MonacoFails, Settle
  <1>7. CASE Initialized
    BY <1>7 DEF Initialized
  <1>8. ASSUME NEW x \in Ids, NEW v \in Values, Type(x, v) PROVE Goal
    BY <1>8 DEF Type, component
  <1>9. ASSUME NEW s \in Settings, NEW v \in Values, ChangeOutside(s, v) PROVE Goal
    BY <1>9 DEF ChangeOutside, component
  <1> QED
    BY <1>1, <1>2, <1>3, <1>4, <1>5, <1>6, <1>7, <1>8, <1>9 DEF Next

\* Who is shown, how many were made and who is cut off, but for Show and Hide.
LEMMA PlaceKept ==
  ASSUME [Next]_vars, ~Hide, \A s \in Settings : ~Show(s)
  PROVE  UNCHANGED <<shown, made, cutOff>>
  <1>1. CASE UNCHANGED vars
    BY <1>1 DEF vars, component
  <1>2. ASSUME NEW s \in Settings, Reuse(s) PROVE UNCHANGED <<shown, made, cutOff>>
    BY <1>2 DEF Reuse
  <1>3. ASSUME NEW i \in Instances, DelayEnds(i) PROVE UNCHANGED <<shown, made, cutOff>>
    BY <1>3 DEF DelayEnds
  <1>4. CASE MonacoLoads \/ MonacoFails \/ Creates \/ Initialized \/ FormatJson
    BY <1>4 DEF MonacoLoads, MonacoFails, Creates, Initialized, FormatJson, component
  <1>5. ASSUME NEW x \in Ids, NEW v \in Values, Type(x, v) PROVE UNCHANGED <<shown, made, cutOff>>
    BY <1>5 DEF Type, component
  <1>6. ASSUME NEW s \in Settings, NEW v \in Values, ChangeOutside(s, v)
        PROVE  UNCHANGED <<shown, made, cutOff>>
    BY <1>6 DEF ChangeOutside, component
  <1> QED
    BY <1>1, <1>2, <1>3, <1>4, <1>5, <1>6 DEF Next

LEMMA ReplacedStep == IInv /\ [Next]_vars => Replaced'
  <1> SUFFICES ASSUME IInv, [Next]_vars, NEW i \in Instances,
                      i <= made', i # shown', stage'[i] # "initialized"
               PROVE  i \in cutOff'
    BY DEF Replaced
  <1>t. ControlTypes /\ Made
    BY TypesByParts DEF IInv, Scheduling
  <1>1. stage[i] # "initialized"
    BY InitializedStays
  <1>2. CASE Hide
    BY <1>1, <1>2 DEF Hide, IInv, Replaced
  <1>3. ASSUME NEW s \in Settings, Show(s) PROVE i \in cutOff'
    <2>1. i <= made /\ i # shown
      BY <1>3, <1>t, ValuesAssumption, BoundsAssumption DEF Show, ControlTypes, Instances
    <2> QED
      BY <1>1, <1>3, <2>1 DEF Show, IInv, Replaced
  <1>4. CASE ~Hide /\ \A s \in Settings : ~Show(s)
    BY <1>1, <1>4, PlaceKept DEF IInv, Replaced
  <1> QED
    BY <1>2, <1>3, <1>4

\* Editors belong to components that were made, and who listens to one in the place
\* is there or was cut off.
LEMMA AudienceStep == IInv /\ [Next]_vars => Owned' /\ Audience'
  <1> SUFFICES ASSUME IInv, [Next]_vars, NEW x \in DOMAIN editors'
               PROVE  /\ editors'[x].host \in 1..made' /\ editors'[x].listeners \subseteq 1..made'
                      /\ editors'[x].host = shown' => editors'[x].listeners \subseteq cutOff' \cup {shown'}
    BY TypeStep DEF Owned, Audience, Holdings
  <1>t. ControlTypes /\ TypeOK /\ Made /\ Holdings /\ Owned /\ Audience /\ Queue /\ Replaced
    BY TypesByParts DEF IInv, Scheduling, ModelsAndSchemasFollow
  <1>b. made \in Nat /\ (\A i \in 1..made : i \in Instances)
    BY <1>t, BoundsAssumption DEF ControlTypes, Instances
  <1>1. CASE ~Hide /\ ~Creates /\ ~Initialized
    <2>1. /\ x \in DOMAIN editors /\ editors'[x].host = editors[x].host
          /\ editors'[x].listeners = editors[x].listeners
      BY <1>1, ContentsStep DEF OnlyContents
    <2>2. ASSUME NEW s \in Settings, Show(s) PROVE made' = made + 1 /\ shown' = made + 1
      BY <2>2 DEF Show
    <2>3. CASE \A s \in Settings : ~Show(s)
      BY <1>1, <1>t, <2>1, <2>3, PlaceKept DEF Owned, Audience
    <2>4. CASE \E s \in Settings : Show(s)
      BY <1>b, <1>t, <2>1, <2>2, <2>4 DEF Owned
    <2> QED
      BY <2>3, <2>4
  <1>2. CASE Hide
    <2>1. made' = made /\ shown' = Unset
      BY <1>2 DEF Hide
    <2>2. x \in DOMAIN editors /\ editors'[x] = editors[x]
      <3>1. CASE stage[shown] = "initialized"
        BY <1>2, <1>t, <3>1, HoldingsAfterDispose DEF Hide
      <3>2. CASE stage[shown] # "initialized"
        BY <1>2, <3>2 DEF Hide, monacoVars
      <3> QED
        BY <3>1, <3>2
    <2>3. editors[x].host # Unset
      BY <1>b, <1>t, <2>2, ValuesAssumption DEF Owned, Instances
    <2> QED
      BY <1>t, <2>1, <2>2, <2>3 DEF Owned
  <1>3. CASE Creates
    <2> DEFINE k == Head(micro)[2]
    <2>1. /\ Initialize(k) /\ k \in Instances /\ UNCHANGED <<made, shown, cutOff>>
          /\ shown # Unset => setting[shown] \in Settings /\ shown = made /\ shown \in Instances
      BY <1>3, <1>t, NextContinuation, ShownHasSetting DEF Creates, component
    <2> HIDE DEF k
    <2>2. CASE UNCHANGED monacoVars
      BY <1>t, <2>1, <2>2 DEF Owned, Audience, monacoVars
    <2>3. CASE /\ shown # Unset
               /\ DOMAIN editors' = DOMAIN editors \cup {options[k].id}
               /\ editors'[options[k].id] = [model |-> <<options[k].id, k>>, content |-> options[k].content,
                                             host |-> shown, listeners |-> {}]
               /\ \A y \in DOMAIN editors \ {options[k].id} : editors'[y] = editors[y]
      <3>1. CASE x = options[k].id
        <4>1. editors'[x].host = made /\ editors'[x].listeners = {}
          BY <2>1, <2>3, <3>1
        <4>2. made \in 1..made
          BY <2>1, <2>3, <1>b DEF Instances
        <4> QED
          BY <2>1, <4>1, <4>2
      <3>2. CASE x # options[k].id
        BY <1>t, <2>1, <2>3, <3>2 DEF Owned, Audience
      <3> QED
        BY <3>1, <3>2
    <2> QED
      BY <1>t, <2>1, <2>2, <2>3, HoldingsAfterInitialize
  <1>4. CASE Initialized
    <2> DEFINE k == Head(micro)[2]
    <2>1. /\ Listen(k) /\ k \in Instances /\ UNCHANGED <<made, shown, cutOff>>
          /\ stage[k] = "creating"
      BY <1>4, <1>t, NextContinuation DEF Initialized, Queue
    <2>2. k \in 1..made /\ k \in cutOff \cup {shown}
      BY <1>b, <1>t, <2>1 DEF Made, Replaced, Instances
    <2> HIDE DEF k
    <2>3. /\ x \in DOMAIN editors /\ editors'[x].host = editors[x].host
          /\ editors'[x].listeners \subseteq editors[x].listeners \cup {k}
      BY <1>t, <2>1, HoldingsAfterListen
    <2> QED
      BY <1>t, <2>1, <2>2, <2>3 DEF Owned, Audience
  <1> QED
    BY <1>1, <1>2, <1>3, <1>4

LEMMA GivenStep == IInv /\ [Next]_vars => Given'
  <1> SUFFICES ASSUME IInv, [Next]_vars PROVE Given'
    OBVIOUS
  <1>t. ControlTypes /\ Made /\ Given
    BY TypesByParts DEF IInv, Scheduling
  <1> USE <1>t DEF ControlTypes, Given, EditorId
  <1>1. CASE UNCHANGED vars
    BY <1>1 DEF vars, component
  <1>2. ASSUME NEW s \in Settings, Show(s) PROVE Given'
    BY <1>2 DEF Show, Made
  <1>3. ASSUME NEW s \in Settings, Reuse(s) PROVE Given'
    BY <1>3 DEF Reuse
  <1>4. CASE Hide \/ Creates \/ FormatJson
    BY <1>4 DEF Hide, Creates, FormatJson, component
  <1>5. ASSUME NEW i \in Instances, DelayEnds(i) PROVE Given'
    <2>1. setting[i] \in Settings /\ EditorId(i) \in Ids
      BY <1>5 DEF DelayEnds, Made, Ids
    <2>2. /\ options'[i].id = EditorId(i) /\ UNCHANGED <<setting, moved>>
          /\ \A j \in Instances \ {i} : options'[j] = options[j] /\ stage'[j] = stage[j]
      BY <1>5 DEF DelayEnds, LoadMonaco
    <2> QED
      BY <2>1, <2>2
  <1>6. CASE MonacoLoads \/ MonacoFails
    BY <1>6 DEF MonacoLoads, MonacoFails, Settle
  <1>7. CASE Initialized
    <2>1. stage[Head(micro)[2]] = "creating" /\ Head(micro)[2] \in Instances
      BY <1>7, NextContinuation DEF Initialized, IInv, Scheduling, Queue
    <2> QED
      BY <1>7, <2>1 DEF Initialized
  <1>8. ASSUME NEW x \in Ids, NEW v \in Values, Type(x, v) PROVE Given'
    BY <1>8 DEF Type, component
  <1>9. ASSUME NEW s \in Settings, NEW v \in Values, ChangeOutside(s, v) PROVE Given'
    BY <1>9 DEF ChangeOutside, component
  <1> QED
    BY <1>1, <1>2, <1>3, <1>4, <1>5, <1>6, <1>7, <1>8, <1>9 DEF Next

\* The component shown still listens to its editor: none is made again after it.
LEMMA HeardStep == IInv /\ [Next]_vars => Heard'
  <1> SUFFICES ASSUME IInv, [Next]_vars, shown' # Unset, stage'[shown'] = "initialized",
                      options'[shown'].id \in DOMAIN editors'
               PROVE  shown' \in editors'[options'[shown'].id].listeners
    BY DEF Heard
  <1>t. ControlTypes /\ TypeOK /\ Scheduling /\ Made /\ Holdings /\ Heard /\ Queue
    BY TypesByParts DEF IInv, Scheduling, ModelsAndSchemasFollow
  <1>1. ASSUME shown' = shown, stage[shown] = "initialized", options'[shown] = options[shown], OnlyContents
        PROVE  shown' \in editors'[options'[shown'].id].listeners
    BY <1>1, <1>t DEF Heard, OnlyContents
  <1>q. ASSUME UNCHANGED component, OnlyContents
        PROVE  shown' \in editors'[options'[shown'].id].listeners
    BY <1>1, <1>q DEF component
  <1>2. CASE UNCHANGED vars
    <2>1. OnlyContents
      BY <1>2, <1>t, ContentsKept DEF vars
    <2> QED
      BY <1>2, <1>q, <2>1 DEF vars
  <1>3. ASSUME NEW s \in Settings, Show(s) PROVE FALSE
    <2>1. made + 1 \in Instances
      BY <1>3, <1>t, BoundsAssumption DEF Show, ControlTypes, Instances
    <2> QED
      BY <1>3, <1>t, <2>1 DEF Show, ControlTypes
  <1>4. ASSUME Hide PROVE FALSE
    BY <1>4 DEF Hide
  <1>n. CASE ~Hide /\ ~Creates /\ ~Initialized
    <2>o. OnlyContents
      BY <1>n, ContentsStep
    <2>1. ASSUME NEW s \in Settings, Reuse(s) PROVE shown' \in editors'[options'[shown'].id].listeners
      BY <1>1, <2>1, <2>o DEF Reuse
    <2>2. ASSUME NEW i \in Instances, DelayEnds(i) PROVE shown' \in editors'[options'[shown'].id].listeners
      <3>1. shown' = shown /\ shown \in Instances
        BY <2>2, <1>t, ShownHasSetting DEF DelayEnds
      <3>2. stage'[i] # "initialized"
        BY <2>2, <1>t DEF DelayEnds, LoadMonaco, ControlTypes
      <3>3. stage[shown] = "initialized" /\ options'[shown] = options[shown]
        BY <2>2, <1>t, <3>1, <3>2 DEF DelayEnds, LoadMonaco, ControlTypes
      <3> QED
        BY <1>1, <2>o, <3>1, <3>3
    <2>3. CASE MonacoLoads \/ MonacoFails
      <3>1. shown' = shown /\ shown \in Instances /\ options' = options
        BY <2>3, <1>t, ShownHasSetting DEF MonacoLoads, MonacoFails
      <3>2. stage[shown] = "initialized"
        BY <2>3, <3>1 DEF MonacoLoads, MonacoFails, Settle
      <3> QED
        BY <1>1, <2>o, <3>1, <3>2
    <2>4. ASSUME NEW x \in Ids, NEW v \in Values, Type(x, v)
          PROVE  shown' \in editors'[options'[shown'].id].listeners
      BY <1>q, <2>4, <2>o DEF Type
    <2>5. ASSUME NEW s \in Settings, NEW v \in Values, ChangeOutside(s, v)
          PROVE  shown' \in editors'[options'[shown'].id].listeners
      BY <1>q, <2>5, <2>o DEF ChangeOutside
    <2>6. CASE FormatJson
      BY <1>q, <2>6, <2>o DEF FormatJson
    <2> QED
      BY <1>2, <1>3, <1>n, <2>1, <2>2, <2>3, <2>4, <2>5, <2>6 DEF Next
  <1>5. ASSUME Creates PROVE FALSE
    <2>1. micro # <<>> /\ shown' = shown /\ stage' = stage
      BY <1>5 DEF Creates, component
    <2> QED
      BY <1>t, <2>1, NobodyOnTheWay
  <1>6. CASE Initialized
    <2> DEFINE k == Head(micro)[2]
    <2>1. /\ Listen(k) /\ k \in Instances /\ stage[k] = "creating" /\ micro # <<>>
          /\ shown' = shown /\ options' = options /\ stage' = [stage EXCEPT ![k] = "initialized"]
      BY <1>6, <1>t, NextContinuation DEF Initialized, Queue
    <2>2. shown \in Instances
      BY <1>t, <2>1, ShownHasSetting
    <2> HIDE DEF k
    <2>3. k = shown
      <3>1. stage[shown] # "initialized"
        BY <1>t, <2>1, NobodyOnTheWay
      <3> QED
        BY <1>t, <2>1, <2>2, <3>1 DEF ControlTypes
    <2> QED
      BY <1>t, <2>1, <2>3, HoldingsAfterListen
  <1> QED
    BY <1>3, <1>4, <1>n, <1>5, <1>6

-----------------------------------------------------------------------------
\* A change of content gives a last value to those only that heed it.
LEMMA OnlyThoseWhoHeed ==
  ASSUME TypeOK, NEW x, NEW v, NEW val, NEW told, ContentChanges(x, v, val, told),
         NEW i \in Instances, i \notin told, stage[i] # "initialized"
  PROVE  lastValue'[i] = lastValue[i]
  BY DEF ContentChanges, Setters, Heeds, TypeOK

LEMMA EarlyAfterParameters ==
  ASSUME TypeOK, NEW i \in Instances, NEW val, ParametersSet(i, val),
         NEW j \in Instances, stage[j] # "initialized"
  PROVE  lastValue'[j] = lastValue[j]
  <1>1. CASE UNCHANGED lastValue
    BY <1>1
  <1>2. CASE stage[i] = "initialized" /\ ContentChanges(NextId(i), val[setting'[i]], val, {i})
    BY <1>2, OnlyThoseWhoHeed
  <1>3. CASE stage[i] = "initialized" /\ lastValue' = [lastValue EXCEPT ![i] = val[setting'[i]]]
    BY <1>3 DEF TypeOK
  <1> QED
    BY <1>1, <1>2, <1>3 DEF ParametersSet

LEMMA EarlyStep == IInv /\ [Next]_vars => Early'
  <1> SUFFICES ASSUME IInv, [Next]_vars, NEW j \in Instances, stage'[j] # "initialized"
               PROVE  lastValue'[j] = Unset
    BY DEF Early
  <1>t. ControlTypes /\ TypeOK /\ Scheduling /\ Made
    BY TypesByParts DEF IInv, Scheduling, ModelsAndSchemasFollow
  <1>j. stage[j] # "initialized" /\ lastValue[j] = Unset
    BY InitializedStays DEF IInv, Early
  <1>1. CASE UNCHANGED lastValue
    BY <1>1, <1>j
  <1>2. ASSUME NEW s \in Settings, Reuse(s) PROVE lastValue'[j] = Unset
    BY <1>2, <1>t, <1>j, EarlyAfterParameters, ShownHasSetting DEF Reuse
  <1>3. ASSUME NEW x \in Ids, NEW v \in Values, Type(x, v) PROVE lastValue'[j] = Unset
    BY <1>3, <1>t, <1>j, OnlyThoseWhoHeed DEF Type
  <1>4. ASSUME NEW s \in Settings, NEW v \in Values, ChangeOutside(s, v) PROVE lastValue'[j] = Unset
    <2>1. CASE shown = Unset
      BY <1>1, <1>4, <2>1 DEF ChangeOutside
    <2>2. CASE shown # Unset
      BY <1>4, <1>t, <1>j, <2>2, EarlyAfterParameters, ShownHasSetting DEF ChangeOutside
    <2> QED
      BY <2>1, <2>2
  <1> QED
    BY <1>1, <1>2, <1>3, <1>4
    DEF Next, Show, Hide, DelayEnds, MonacoLoads, MonacoFails, Creates, Initialized, FormatJson, vars

\* All who write one setting read one editor, and what they write is what it holds then.
LEMMA WritersAgree ==
  ASSUME TypeOK, NEW x \in DOMAIN editors, NEW v \in Contents, NEW val \in [Settings -> Contents],
         NEW told, ContentChanges(x, v, val, told),
         NEW i \in Instances, setting'[i] \in Settings, NextId(i) \in DOMAIN editors
  PROVE  /\ Reads(NextId(i), x, v) = editors'[NextId(i)].content
         /\ \/ value'[setting'[i]] = editors'[NextId(i)].content
            \/ value'[setting'[i]] = val[setting'[i]] /\ i \notin Setters(x, v)
         /\ i \in told => lastValue'[i] = v
         /\ i \notin told /\ i \in Setters(x, v) => lastValue'[i] = editors'[NextId(i)].content
         /\ i \notin told /\ i \notin Setters(x, v) => lastValue'[i] = lastValue[i]
  <1> DEFINE s == setting'[i]
             c == editors'[NextId(i)].content
  <1>1. Reads(NextId(i), x, v) = c
    BY Changing DEF Reads, GetValue, HasEditor
  <1>2. value'[s] = IF \E j \in Setters(x, v) : setting'[j] = s THEN Reads(NextId(i), x, v) ELSE val[s]
    BY DEF ContentChanges, NextId
  <1>3. value'[s] = c \/ (value'[s] = val[s] /\ i \notin Setters(x, v))
    BY <1>1, <1>2
  <1>4. lastValue'[i] = IF i \in told THEN v
                        ELSE IF i \in Setters(x, v) THEN Reads(NextId(i), x, v) ELSE lastValue[i]
    BY DEF ContentChanges
  <1> QED
    BY <1>1, <1>3, <1>4

LEMMA SameAfterParameters ==
  ASSUME TypeOK, Same, shown \in Instances, UNCHANGED <<shown, stage>>, setting'[shown] \in Settings,
         shown \notin moved' => shown \notin moved /\ NextId(shown) = EditorId(shown),
         NEW val \in [Settings -> Contents], ParametersSet(shown, val)
  PROVE  Same'
  <1> DEFINE x == NextId(shown)
             v == val[setting'[shown]]
  <1>v. v \in Contents
    OBVIOUS
  <1> SUFFICES ASSUME Settled', x \in DOMAIN editors', lastValue'[shown] # Unset
               PROVE  lastValue'[shown] = value'[setting'[shown]] /\ editors'[x].content = value'[setting'[shown]]
    BY DEF Same, Agreed, HasEditor, NextId, EditorId
  <1>1. Settled /\ x = EditorId(shown)
    BY DEF Settled
  <1>2. CASE v = lastValue[shown]
    <2>1. value' = val /\ UNCHANGED <<lastValue, editors>>
      BY <1>2 DEF ParametersSet, monacoVars
    <2>2. editors[x].content = lastValue[shown]
      BY <1>1, <2>1 DEF Same, Agreed, HasEditor
    <2> QED
      BY <1>2, <2>1, <2>2
  <1>3. CASE v # lastValue[shown]
    <2>1. stage[shown] = "initialized"
      BY <1>1 DEF Settled
    <2>2. HasEditor(x)
      BY <1>3, <2>1 DEF ParametersSet, HasEditor, monacoVars
    <2>3. ContentChanges(x, v, val, {shown})
      BY <1>3, <2>1, <2>2 DEF ParametersSet
    <2>4. x \in DOMAIN editors
      BY <2>2 DEF HasEditor
    <2>5. editors'[x].content = v
      BY <1>v, <2>3, <2>4, Changing
    <2>6. lastValue'[shown] = v /\ value'[setting'[shown]] = v
      BY <1>v, <2>3, <2>4, <2>5, WritersAgree
    <2> QED
      BY <2>5, <2>6
  <1> QED
    BY <1>2, <1>3

\* Typing into an editor in the place: the component shown hears of it.
LEMMA SameAfterTyping ==
  ASSUME IInv, NEW x \in Ids, NEW v \in Values, Type(x, v) PROVE Same'
  <1>t. /\ TypeOK /\ ControlTypes /\ ValueTypes /\ Scheduling /\ Made /\ Given /\ Heard /\ Same
    BY TypesByParts DEF IInv, Scheduling, ModelsAndSchemasFollow
  <1>c. /\ UNCHANGED component /\ ContentChanges(x, v, value, {}) /\ x \in DOMAIN editors
        /\ v # editors[x].content /\ v \in Contents /\ value \in [Settings -> Contents]
    BY <1>t DEF Type, HasEditor, Contents, ValueTypes
  <1> DEFINE y == EditorId(shown)
  <1>1. SUFFICES ASSUME Settled, y \in DOMAIN editors', lastValue'[shown] # Unset
                 PROVE  lastValue'[shown] = value'[setting[shown]] /\ editors'[y].content = value'[setting[shown]]
    BY <1>c DEF Same, Agreed, HasEditor, EditorId, Settled, component
  <1>2. shown \in Instances /\ setting[shown] \in Settings /\ stage[shown] = "initialized"
    BY <1>1, <1>t, ShownHasSetting DEF Settled
  <1>3. y \in DOMAIN editors /\ NextId(shown) = y /\ setting' = setting
    BY <1>1, <1>c, <1>t, Changing DEF OnlyContents, NextId, EditorId, component
  <1>4. /\ Reads(NextId(shown), x, v) = editors'[y].content
        /\ \/ value'[setting[shown]] = editors'[y].content
           \/ value'[setting[shown]] = value[setting[shown]] /\ shown \notin Setters(x, v)
        /\ shown \in Setters(x, v) => lastValue'[shown] = editors'[y].content
        /\ shown \notin Setters(x, v) => lastValue'[shown] = lastValue[shown]
    BY <1>2, <1>3, <1>c, <1>t, WritersAgree
  <1>5. CASE shown \in Setters(x, v)
    BY <1>4, <1>5
  <1>6. CASE shown \notin Setters(x, v)
    <2>1. lastValue[shown] = value[setting[shown]] /\ editors[y].content = value[setting[shown]]
      BY <1>1, <1>3, <1>4, <1>6, <1>t DEF Same, Agreed, HasEditor
    <2>2. x # y
      <3> SUFFICES ASSUME x = y PROVE FALSE
        OBVIOUS
      <3>1. options[shown].id = x
        BY <1>1, <1>2, <1>t DEF Given, Settled
      <3>2. shown \in editors[x].listeners
        BY <1>1, <1>2, <1>3, <1>t, <3>1 DEF Heard, Settled
      <3>3. Reads(NextId(shown), x, v) = v
        BY <1>3 DEF Reads
      <3> QED
        BY <1>2, <1>6, <1>c, <2>1, <3>2, <3>3 DEF Setters, Heeds
    <2>3. editors'[y].content = editors[y].content
      BY <1>3, <1>c, <1>t, <2>2, Changing
    <2> QED
      BY <1>4, <1>6, <2>1, <2>3
  <1> QED
    BY <1>5, <1>6

LEMMA SameStep == IInv /\ [Next]_vars => Same'
  <1> SUFFICES ASSUME IInv, [Next]_vars PROVE Same'
    OBVIOUS
  <1>t. /\ TypeOK /\ ControlTypes /\ ValueTypes /\ Scheduling /\ Made /\ Queue /\ Holdings /\ Early /\ Same
    BY TypesByParts DEF IInv, Scheduling, ModelsAndSchemasFollow
  <1> USE DEF Same, Agreed, Settled, HasEditor, EditorId
  <1>q. ASSUME UNCHANGED <<shown, setting, moved, value, lastValue, editors>>,
               shown # Unset => (stage'[shown] = "initialized" => stage[shown] = "initialized")
        PROVE  Same'
    BY <1>q, <1>t
  <1>1. CASE UNCHANGED vars
    BY <1>1, <1>q DEF vars, component, monacoVars
  <1>2. ASSUME NEW s \in Settings, Show(s) PROVE Same'
    <2>1. shown' \in Instances /\ stage'[shown'] = "delay"
      BY <1>2, <1>t, BoundsAssumption DEF Show, ControlTypes, Instances
    <2> QED
      BY <2>1
  <1>3. ASSUME NEW s \in Settings, Reuse(s) PROVE Same'
    <2>1. shown \in Instances /\ UNCHANGED <<shown, stage>> /\ setting'[shown] = s
      BY <1>3, <1>t, ShownHasSetting DEF Reuse, ControlTypes
    <2>2. shown \notin moved' => shown \notin moved /\ NextId(shown) = EditorId(shown)
      BY <1>3, <2>1 DEF Reuse, NextId
    <2>3. value \in [Settings -> Contents] /\ ParametersSet(shown, value)
      BY <1>3, <1>t DEF Reuse, ValueTypes
    <2> QED
      BY <2>1, <2>2, <2>3, <1>t, SameAfterParameters
  <1>4. CASE Hide
    BY <1>4 DEF Hide
  <1>5. ASSUME NEW i \in Instances, DelayEnds(i) PROVE Same'
    <2>1. shown # Unset => (stage'[shown] = "initialized" => stage[shown] = "initialized")
      BY <1>5, <1>t, ShownHasSetting DEF DelayEnds, LoadMonaco, ControlTypes
    <2> QED
      BY <1>5, <1>q, <2>1 DEF DelayEnds, monacoVars
  <1>6. CASE MonacoLoads \/ MonacoFails
    <2>1. shown # Unset => (stage'[shown] = "initialized" => stage[shown] = "initialized")
      BY <1>6, <1>t, ShownHasSetting DEF MonacoLoads, MonacoFails, Settle, ControlTypes
    <2> QED
      BY <1>6, <1>q, <2>1 DEF MonacoLoads, MonacoFails, monacoVars
  <1>7. CASE Creates
    <2>1. micro # <<>> /\ UNCHANGED <<shown, stage>>
      BY <1>7 DEF Creates, component
    <2>2. shown # Unset => stage[shown] # "initialized"
      BY <1>t, <2>1, NobodyOnTheWay
    <2> QED
      BY <2>1, <2>2
  <1>8. CASE Initialized
    <2> DEFINE k == Head(micro)[2]
    <2>1. /\ micro # <<>> /\ UNCHANGED <<shown, lastValue>> /\ stage' = [stage EXCEPT ![k] = "initialized"]
          /\ stage[k] = "creating" /\ k \in Instances
      BY <1>8, <1>t, NextContinuation DEF Initialized, Queue
    <2>2. shown # Unset => shown \in Instances /\ stage[shown] # "initialized"
      BY <1>t, <2>1, NobodyOnTheWay, ShownHasSetting
    <2>3. shown # Unset => lastValue'[shown] = Unset
      BY <1>t, <2>1, <2>2 DEF Early
    <2> QED
      BY <2>1, <2>3
  <1>9. ASSUME NEW x \in Ids, NEW v \in Values, Type(x, v) PROVE Same'
    BY <1>9, SameAfterTyping
  <1>10. ASSUME NEW s \in Settings, NEW v \in Values, ChangeOutside(s, v) PROVE Same'
    <2> DEFINE val == [value EXCEPT ![s] = v]
    <2>1. val \in [Settings -> Contents]
      BY <1>t DEF ValueTypes, Contents
    <2>2. UNCHANGED <<shown, stage, setting, moved>>
      BY <1>10 DEF ChangeOutside, component
    <2>3. CASE shown = Unset
      BY <2>2, <2>3
    <2>4. CASE shown # Unset
      <3>1. shown \in Instances /\ setting'[shown] \in Settings
        BY <1>t, <2>2, <2>4, ShownHasSetting
      <3>2. ParametersSet(shown, val)
        BY <1>10, <2>4 DEF ChangeOutside
      <3>3. shown \notin moved' => shown \notin moved /\ NextId(shown) = EditorId(shown)
        BY <2>2 DEF NextId
      <3> HIDE DEF val
      <3> QED
        BY <2>1, <2>2, <3>1, <3>2, <3>3, <1>t, SameAfterParameters
    <2> QED
      BY <2>3, <2>4
  <1>11. CASE FormatJson
    <2>1. shown # Unset /\ shown \in Instances /\ setting[shown] \in Settings
      BY <1>11, <1>t, ShownHasSetting DEF FormatJson
    <2>2. /\ UNCHANGED <<shown, setting, stage, moved, lastValue, editors>>
          /\ value'[setting[shown]] = GetValue(EditorId(shown))
      BY <1>11, <1>t, <2>1 DEF FormatJson, component, monacoVars, ValueTypes
    <2> QED
      BY <1>t, <2>1, <2>2 DEF GetValue
  <1> QED
    BY <1>1, <1>2, <1>3, <1>4, <1>5, <1>6, <1>7, <1>8, <1>9, <1>10, <1>11 DEF Next

-----------------------------------------------------------------------------
\* The values that become blank in a step.
BlankedWithoutEditor ==
    \A s \in Settings : value'[s] = Blank =>
        \E i \in Instances : setting[i] = s /\ EditorId(i) \notin DOMAIN editors

NoEditorBlank == \A x \in DOMAIN editors : editors[x].content # Blank
NoOptionsBlank ==
    \A i \in Instances : stage[i] \in {"awaiting", "creating"} => options[i].content # Blank

\* A content that is not blank leaves blank, where it is heard of, only what is read without an editor.
LEMMA BlankHeard ==
  ASSUME TypeOK, NoEditorBlank, NEW x \in DOMAIN editors, NEW v \in Contents, v # Blank,
         NEW val \in [Settings -> Contents], \A s \in Settings : val[s] # Blank,
         NEW told, ContentChanges(x, v, val, told)
  PROVE  /\ NoEditorBlank'
         /\ \A s \in Settings : value'[s] = Blank =>
               \E i \in Instances : setting'[i] = s /\ NextId(i) \notin DOMAIN editors
  <1>1. NoEditorBlank'
    BY Changing DEF NoEditorBlank, OnlyContents
  <1>2. ASSUME NEW s \in Settings, value'[s] = Blank
        PROVE  \E i \in Instances : setting'[i] = s /\ NextId(i) \notin DOMAIN editors
    <2>1. value'[s] = IF \E j \in Setters(x, v) : setting'[j] = s THEN Reads(IdOf[s], x, v) ELSE val[s]
      BY DEF ContentChanges
    <2>2. Reads(IdOf[s], x, v) = Blank /\ \E j \in Setters(x, v) : setting'[j] = s
      BY <1>2, <2>1
    <2>3. IdOf[s] \notin DOMAIN editors
      BY <2>2 DEF Reads, GetValue, HasEditor, NoEditorBlank
    <2>4. PICK j \in Instances : setting'[j] = s
      BY <2>2 DEF Setters, TypeOK
    <2> QED
      BY <2>3, <2>4 DEF NextId
  <1> QED
    BY <1>1, <1>2

LEMMA BlankAfterParameters ==
  ASSUME TypeOK, NoEditorBlank, shown \in Instances, setting'[shown] \in Settings,
         \A i \in Instances \ {shown} : setting'[i] = setting[i],
         NEW val \in [Settings -> Contents], \A s \in Settings : val[s] # Blank,
         ParametersSet(shown, val)
  PROVE  NoEditorBlank' /\ BlankedWithoutEditor
  <1> DEFINE x == NextId(shown)
             v == val[setting'[shown]]
  <1>1. CASE value' = val /\ UNCHANGED monacoVars
    BY <1>1 DEF NoEditorBlank, BlankedWithoutEditor, monacoVars
  <1>2. CASE HasEditor(x) /\ ContentChanges(x, v, val, {shown})
    <2>1. x \in DOMAIN editors /\ v \in Contents /\ v # Blank
      BY <1>2 DEF HasEditor
    <2> HIDE DEF x, v
    <2>2. /\ NoEditorBlank'
          /\ \A s \in Settings : value'[s] = Blank =>
                \E i \in Instances : setting'[i] = s /\ NextId(i) \notin DOMAIN editors
      BY <1>2, <2>1, BlankHeard
    <2>3. ASSUME NEW i \in Instances, NextId(i) \notin DOMAIN editors
          PROVE  setting'[i] = setting[i] /\ EditorId(i) = NextId(i)
      BY <2>1, <2>3 DEF x, NextId, EditorId
    <2> QED
      BY <2>2, <2>3 DEF BlankedWithoutEditor
  <1> QED
    BY <1>1, <1>2 DEF ParametersSet

LEMMA OptionsStep == IInv /\ NothingIsBlank /\ [Next]_vars => NoOptionsBlank'
  <1> SUFFICES ASSUME IInv, NothingIsBlank, [Next]_vars PROVE NoOptionsBlank'
    OBVIOUS
  <1>t. ControlTypes /\ Made /\ NoOptionsBlank
    BY TypesByParts DEF IInv, Scheduling, NothingIsBlank, NoOptionsBlank
  <1> USE <1>t DEF ControlTypes, NoOptionsBlank
  <1>1. CASE UNCHANGED vars
    BY <1>1 DEF vars, component
  <1>2. ASSUME NEW s \in Settings, Show(s) PROVE NoOptionsBlank'
    BY <1>2 DEF Show
  <1>3. ASSUME NEW s \in Settings, Reuse(s) PROVE NoOptionsBlank'
    BY <1>3 DEF Reuse
  <1>4. CASE Hide \/ Creates \/ FormatJson
    BY <1>4 DEF Hide, Creates, FormatJson, component
  <1>5. ASSUME NEW i \in Instances, DelayEnds(i) PROVE NoOptionsBlank'
    <2>1. setting[i] \in Settings
      BY <1>5 DEF DelayEnds, Made
    <2>2. value[setting[i]] # Blank
      BY <2>1 DEF NothingIsBlank
    <2>3. /\ options'[i].content # Blank
          /\ \A j \in Instances \ {i} : options'[j] = options[j] /\ stage'[j] = stage[j]
      BY <1>5, <2>2 DEF DelayEnds, LoadMonaco
    <2> QED
      BY <2>3
  <1>6. CASE MonacoLoads \/ MonacoFails
    BY <1>6 DEF MonacoLoads, MonacoFails, Settle
  <1>7. CASE Initialized
    BY <1>7 DEF Initialized
  <1>8. ASSUME NEW x \in Ids, NEW v \in Values, Type(x, v) PROVE NoOptionsBlank'
    BY <1>8 DEF Type, component
  <1>9. ASSUME NEW s \in Settings, NEW v \in Values, ChangeOutside(s, v) PROVE NoOptionsBlank'
    BY <1>9 DEF ChangeOutside, component
  <1> QED
    BY <1>1, <1>2, <1>3, <1>4, <1>5, <1>6, <1>7, <1>8, <1>9 DEF Next

LEMMA BlankStep == IInv /\ NothingIsBlank /\ [Next]_vars => NoEditorBlank' /\ BlankedWithoutEditor
  <1> SUFFICES ASSUME IInv, NothingIsBlank, [Next]_vars PROVE NoEditorBlank' /\ BlankedWithoutEditor
    OBVIOUS
  <1>t. /\ TypeOK /\ ControlTypes /\ ValueTypes /\ Made /\ Holdings /\ Queue /\ NoEditorBlank
        /\ value \in [Settings -> Contents] /\ (\A s \in Settings : value[s] # Blank)
    BY TypesByParts DEF IInv, Scheduling, ModelsAndSchemasFollow, NothingIsBlank, NoEditorBlank, ValueTypes
  <1>v. ASSUME UNCHANGED value PROVE BlankedWithoutEditor
    BY <1>v, <1>t DEF BlankedWithoutEditor
  <1>q. ASSUME UNCHANGED <<value, monacoVars>> PROVE NoEditorBlank' /\ BlankedWithoutEditor
    BY <1>q, <1>v, <1>t DEF NoEditorBlank, monacoVars
  <1>1. CASE UNCHANGED vars
    BY <1>1, <1>q DEF vars
  <1>2. ASSUME NEW s \in Settings, Show(s) PROVE NoEditorBlank' /\ BlankedWithoutEditor
    BY <1>2, <1>q DEF Show
  <1>3. ASSUME NEW s \in Settings, Reuse(s) PROVE NoEditorBlank' /\ BlankedWithoutEditor
    <2>1. /\ shown \in Instances /\ setting'[shown] \in Settings
          /\ \A i \in Instances \ {shown} : setting'[i] = setting[i]
      BY <1>3, <1>t, ShownHasSetting DEF Reuse, ControlTypes
    <2>2. ParametersSet(shown, value)
      BY <1>3 DEF Reuse
    <2> QED
      BY <2>1, <2>2, <1>t, BlankAfterParameters
  <1>4. CASE Hide
    <2>1. UNCHANGED value /\ (UNCHANGED monacoVars \/ Dispose(EditorId(shown)))
      BY <1>4 DEF Hide
    <2>2. ASSUME Dispose(EditorId(shown)) PROVE NoEditorBlank'
      BY <2>2, <1>t, HoldingsAfterDispose DEF NoEditorBlank
    <2> QED
      BY <2>1, <2>2, <1>v, <1>q
  <1>5. ASSUME NEW i \in Instances, DelayEnds(i) PROVE NoEditorBlank' /\ BlankedWithoutEditor
    BY <1>5, <1>q DEF DelayEnds
  <1>6. CASE MonacoLoads \/ MonacoFails
    BY <1>6, <1>q DEF MonacoLoads, MonacoFails
  <1>7. CASE Creates
    <2> DEFINE k == Head(micro)[2]
    <2>1. /\ Initialize(k) /\ k \in Instances /\ UNCHANGED value /\ stage[k] = "creating"
          /\ shown # Unset => setting[shown] \in Settings
      BY <1>7, <1>t, NextContinuation, ShownHasSetting DEF Creates, Queue
    <2>2. options[k].content # Blank
      BY <2>1 DEF NothingIsBlank
    <2> HIDE DEF k
    <2>3. CASE UNCHANGED monacoVars
      BY <2>1, <2>3, <1>q
    <2>4. CASE /\ DOMAIN editors' = DOMAIN editors \cup {options[k].id}
               /\ editors'[options[k].id] = [model |-> <<options[k].id, k>>, content |-> options[k].content,
                                             host |-> shown, listeners |-> {}]
               /\ \A y \in DOMAIN editors \ {options[k].id} : editors'[y] = editors[y]
      <3>1. editors'[options[k].id].content # Blank
        BY <2>2, <2>4
      <3>2. NoEditorBlank'
        BY <1>t, <2>4, <3>1 DEF NoEditorBlank
      <3> QED
        BY <2>1, <3>2, <1>v
    <2> QED
      BY <1>t, <2>1, <2>3, <2>4, HoldingsAfterInitialize
  <1>8. CASE Initialized
    <2>1. Listen(Head(micro)[2]) /\ Head(micro)[2] \in Instances /\ UNCHANGED value
      BY <1>8, <1>t, NextContinuation DEF Initialized
    <2>2. NoEditorBlank'
      BY <1>t, <2>1, HoldingsAfterListen DEF NoEditorBlank
    <2> QED
      BY <2>1, <2>2, <1>v
  <1>9. ASSUME NEW x \in Ids, NEW v \in Values, Type(x, v) PROVE NoEditorBlank' /\ BlankedWithoutEditor
    <2>1. /\ x \in DOMAIN editors /\ v \in Contents /\ v # Blank /\ setting' = setting
          /\ ContentChanges(x, v, value, {})
      BY <1>9, ValuesAssumption DEF Type, HasEditor, Contents, component
    <2>2. /\ NoEditorBlank'
          /\ \A s \in Settings : value'[s] = Blank =>
                \E i \in Instances : setting'[i] = s /\ NextId(i) \notin DOMAIN editors
      BY <2>1, <1>t, BlankHeard
    <2> QED
      BY <2>1, <2>2 DEF BlankedWithoutEditor, NextId, EditorId
  <1>10. ASSUME NEW s \in Settings, NEW v \in Values, ChangeOutside(s, v)
         PROVE  NoEditorBlank' /\ BlankedWithoutEditor
    <2> DEFINE val == [value EXCEPT ![s] = v]
    <2>1. val \in [Settings -> Contents] /\ \A r \in Settings : val[r] # Blank
      BY <1>t, ValuesAssumption DEF Contents
    <2>2. UNCHANGED <<shown, setting>>
      BY <1>10 DEF ChangeOutside, component
    <2>3. CASE shown = Unset
      <3>1. value' = val /\ UNCHANGED monacoVars
        BY <1>10, <2>3 DEF ChangeOutside
      <3> HIDE DEF val
      <3> QED
        BY <1>t, <2>1, <3>1 DEF NoEditorBlank, BlankedWithoutEditor, monacoVars
    <2>4. CASE shown # Unset
      <3>1. shown \in Instances /\ setting'[shown] \in Settings
        BY <1>t, <2>2, <2>4, ShownHasSetting
      <3>2. ParametersSet(shown, val)
        BY <1>10, <2>4 DEF ChangeOutside
      <3> HIDE DEF val
      <3> QED
        BY <2>1, <2>2, <3>1, <3>2, <1>t, BlankAfterParameters
    <2> QED
      BY <2>3, <2>4
  <1>11. CASE FormatJson
    <2>1. shown \in Instances
      BY <1>11, <1>t, ShownHasSetting DEF FormatJson
    <2>2. /\ UNCHANGED monacoVars
          /\ value' = [value EXCEPT ![setting[shown]] = GetValue(EditorId(shown))]
      BY <1>11 DEF FormatJson
    <2>3. NoEditorBlank'
      BY <2>2, <1>t DEF NoEditorBlank, monacoVars
    <2>4. BlankedWithoutEditor
      BY <2>1, <2>2, <1>t DEF BlankedWithoutEditor, GetValue, HasEditor, NoEditorBlank
    <2> QED
      BY <2>3, <2>4
  <1> QED
    BY <1>1, <1>2, <1>3, <1>4, <1>5, <1>6, <1>7, <1>8, <1>9, <1>10, <1>11 DEF Next

\* What is typed is heard by those in the audience.
LEMMA TypingStep ==
  ASSUME IInv, NEW x \in Ids, NEW v \in Values, Type(x, v), NEW s \in Settings, value'[s] # value[s]
  PROVE  \E i \in cutOff \cup {shown} : setting[i] = s
  <1>1. /\ x \in DOMAIN editors /\ editors[x].host = shown /\ setting' = setting
        /\ ContentChanges(x, v, value, {})
    BY DEF Type, HasEditor, component
  <1>2. editors[x].listeners \subseteq cutOff \cup {shown}
    BY <1>1 DEF IInv, Audience
  <1>3. {i \in Setters(x, v) : setting'[i] = s} # {}
    BY <1>1 DEF ContentChanges
  <1> QED
    BY <1>1, <1>2, <1>3 DEF Setters

-----------------------------------------------------------------------------
\* The strengthened invariant holds of every reachable state.
LEMMA Invariance == Spec => []IInv
  <1>1. IInv /\ [Next]_vars => IInv'
    <2> SUFFICES ASSUME IInv, [Next]_vars PROVE IInv'
      OBVIOUS
    <2>1. ControlTypes' /\ ValueTypes' /\ Holdings'
      BY TypeStep
    <2>2. Scheduling'
      BY SchedulingStep
    <2>3. Owned' /\ Given' /\ Replaced' /\ Audience' /\ Heard'
      BY AudienceStep, GivenStep, ReplacedStep, HeardStep
    <2>4. Early' /\ Same'
      BY EarlyStep, SameStep
    <2> QED
      BY <2>1, <2>2, <2>3, <2>4, TypesByParts, PTL
  <1> QED
    BY PageOpens, <1>1, PTL DEF Spec

\* Monaco holds the models of the editors and no other, schemas only for editors there are, and
\* validates the editors that have one, whatever initialize and dispose are called for and when.
THEOREM MonacoHoldsTheEditors == Spec => []ModelsAndSchemasFollow
  <1>1. IInv => ModelsAndSchemasFollow
    BY DEF IInv
  <1> QED
    BY Invariance, <1>1, PTL

\* JsonSetting's editor shows the value of its setting, from the first change of either on.
THEOREM EditorAndValueAgree == Spec => []EditorShowsValue
  <1>1. IInv => EditorShowsValue
    BY DEF IInv, Same, Settled, Agreed, EditorShowsValue
  <1> QED
    BY Invariance, <1>1, PTL

\* What the user types reaches the setting that is shown, or that of a component that was replaced
\* before it was initialised, and no other.
THEOREM TypingStaysInThePlace == Spec => OnlyShownSettingChanges
  <1>1. IInv /\ [Next]_vars =>
           [(\E x \in Ids, v \in Values : Type(x, v)) =>
               \A s \in Settings : value'[s] # value[s] => \E i \in cutOff \cup {shown} : setting[i] = s]_vars
    BY TypingStep
  <1> QED
    BY Invariance, <1>1, PTL DEF Spec, OnlyShownSettingChanges

\* Blank comes into a page without it only as the value of a component whose getValue finds no
\* editor, never by an editor, by its options or by a listener.
THEOREM BlankForWantOfAnEditor == Spec => BlankOnlyWithoutEditor
  <1>1. IInv /\ [Next]_vars =>
           [NothingIsBlank =>
               /\ NothingIsBlank' \/ \E s \in Settings : value'[s] = Blank
               /\ \A s \in Settings : value'[s] = Blank =>
                     \E i \in Instances : setting[i] = s /\ EditorId(i) \notin DOMAIN editors]_vars
    <2> SUFFICES ASSUME IInv, [Next]_vars, NothingIsBlank
                 PROVE  /\ NothingIsBlank' \/ \E s \in Settings : value'[s] = Blank
                        /\ BlankedWithoutEditor
      BY DEF BlankedWithoutEditor
    <2>1. NoEditorBlank' /\ BlankedWithoutEditor
      BY BlankStep
    <2>2. NoOptionsBlank'
      BY OptionsStep
    <2> QED
      BY <2>1, <2>2 DEF NothingIsBlank, NoEditorBlank, NoOptionsBlank
  <1> QED
    BY Invariance, <1>1, PTL DEF Spec, BlankOnlyWithoutEditor
=============================================================================
