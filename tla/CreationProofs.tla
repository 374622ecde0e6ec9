--------------------------- MODULE CreationProofs ---------------------------
(***************************************************************************)
(* Proofs about what a new server is given.  Its host ports: HostPorts,    *)
(* for any set of servers and nodes, any port range and any template.  Its *)
(* settings: CreateForm, for any template whose defaults its controls can  *)
(* show, however often the form is filled in.  At the end, the loop of the *)
(* allocator, whose result HostPorts takes for granted.                    *)
(***************************************************************************)
EXTENDS MCHostPorts, CreateForm, FiniteSetTheorems, TLAPS

\* A row is what its creation, which is over, stored.
RowIsStored ==
  \A s \in Servers : row[s] # NoRow =>
    /\ create[s].pc = "closed"
    /\ row[s].node = create[s].node
    /\ row[s].ports = create[s].ports

\* The rows a creation saw were stored before, and those that are still there
\* have none of its ports.
SawIsDisjoint ==
  \A s \in Servers : \A t \in create[s].saw :
    /\ create[t].pc = "closed"
    /\ row[t] # NoRow => row[t].ports \cap create[s].ports = {}

IInv == TypeOK /\ RowIsStored /\ SawIsDisjoint

(***************************************************************************)
(* What the allocator hands out lies in the range and is not in use: the   *)
(* result of PortAllocatorService.allocate, for any range and any need.    *)
(***************************************************************************)
LEMMA LowestFreeIsFree ==
  ASSUME NEW used, NEW need, NEW P \in LowestFree(used, need)
  PROVE  P \subseteq HostRange /\ P \cap used = {}
  BY DEF LowestFree

LEMMA InitIInv == Init => IInv
  BY DEF Init, IInv, TypeOK, Creation, RowIsStored, SawIsDisjoint

(***************************************************************************)
(* No step of a creation or a removal leaves the types.                    *)
(***************************************************************************)
LEMMA TypeStep == TypeOK /\ [Next]_hostVars => TypeOK'
<1> SUFFICES ASSUME TypeOK, [Next]_hostVars PROVE TypeOK'
  OBVIOUS
<1>1. ASSUME NEW s \in Servers, Begin(s) PROVE TypeOK'
  BY <1>1 DEF Begin, TypeOK, Creation
<1>2. ASSUME NEW s \in Servers, PickPorts(s) PROVE TypeOK'
  <2>1. PICK P \in LowestFree(UsedOn(create[s].node), create[s].need) :
          create' = [create EXCEPT ![s] =
            [pc |-> "inserting", node |-> create[s].node, need |-> create[s].need,
             ports |-> P, saw |-> RowsOn(create[s].node)]]
    BY <1>2 DEF PickPorts
  <2>2. P \subseteq HostRange /\ RowsOn(create[s].node) \subseteq Servers
    BY LowestFreeIsFree DEF RowsOn
  <2>3. create[s] \in Creation
    BY DEF TypeOK
  <2>4. [pc |-> "inserting", node |-> create[s].node, need |-> create[s].need,
        ports |-> P, saw |-> RowsOn(create[s].node)] \in Creation
    BY <2>2, <2>3 DEF Creation
  <2> QED BY <1>2, <2>1, <2>4 DEF PickPorts, TypeOK
<1>3. ASSUME NEW s \in Servers, TurnAway(s) PROVE TypeOK'
  BY <1>3 DEF TurnAway, TypeOK, Creation
<1>4. ASSUME NEW s \in Servers, InsertRow(s) PROVE TypeOK'
  BY <1>4 DEF InsertRow, TypeOK, Creation, Row
<1>5. ASSUME NEW s \in Servers, RemoveRow(s) PROVE TypeOK'
  BY <1>5 DEF RemoveRow, TypeOK
<1>6. CASE Crash
  BY <1>6 DEF Crash, TypeOK, Creation
<1>7. CASE UNCHANGED hostVars
  BY <1>7 DEF hostVars, TypeOK
<1> QED BY <1>1, <1>2, <1>3, <1>4, <1>5, <1>6, <1>7 DEF Next

(***************************************************************************)
(* The inductive step.  PickPorts establishes the disjointness for the     *)
(* rows it saw; later steps cannot undo it, because no row that was seen   *)
(* is ever stored again.                                                   *)
(***************************************************************************)
LEMMA IInvStep == IInv /\ [Next]_hostVars => IInv'
<1> SUFFICES ASSUME IInv, [Next]_hostVars PROVE RowIsStored' /\ SawIsDisjoint'
  BY TypeStep DEF IInv
<1> USE NoRowAssumption DEF IInv, TypeOK, Creation
<1>1. ASSUME NEW s \in Servers, Begin(s) PROVE RowIsStored' /\ SawIsDisjoint'
  BY <1>1 DEF Begin, RowIsStored, SawIsDisjoint
<1>2. ASSUME NEW s \in Servers, PickPorts(s) PROVE RowIsStored' /\ SawIsDisjoint'
  <2>1. PICK P \in LowestFree(UsedOn(create[s].node), create[s].need) :
          create' = [create EXCEPT ![s] =
            [pc |-> "inserting", node |-> create[s].node, need |-> create[s].need,
             ports |-> P, saw |-> RowsOn(create[s].node)]]
    BY <1>2 DEF PickPorts
  <2>2. create[s].pc = "reading" /\ row' = row
    BY <1>2 DEF PickPorts
  <2>3. P \cap UsedOn(create[s].node) = {}
    BY LowestFreeIsFree
  <2>4. \A t \in RowsOn(create[s].node) :
          t # s /\ create[t].pc = "closed" /\ row[t].ports \cap P = {}
    BY <2>2, <2>3 DEF RowsOn, UsedOn, RowIsStored
  <2>5. RowIsStored'
    BY <2>1, <2>2 DEF RowIsStored
  <2>6. SawIsDisjoint'
    <3> SUFFICES ASSUME NEW u \in Servers, NEW t \in create'[u].saw
                 PROVE  /\ create'[t].pc = "closed"
                        /\ row'[t] # NoRow => row'[t].ports \cap create'[u].ports = {}
      BY DEF SawIsDisjoint
    <3>1. CASE u = s
      BY <2>1, <2>2, <2>4, <3>1 DEF RowsOn
    <3>2. CASE u # s
      BY <2>1, <2>2, <3>2 DEF SawIsDisjoint
    <3> QED BY <3>1, <3>2
  <2> QED BY <2>5, <2>6
<1>3. ASSUME NEW s \in Servers, TurnAway(s) PROVE RowIsStored' /\ SawIsDisjoint'
  BY <1>3 DEF TurnAway, RowIsStored, SawIsDisjoint
<1>4. ASSUME NEW s \in Servers, InsertRow(s) PROVE RowIsStored' /\ SawIsDisjoint'
  BY <1>4 DEF InsertRow, RowIsStored, SawIsDisjoint
<1>5. ASSUME NEW s \in Servers, RemoveRow(s) PROVE RowIsStored' /\ SawIsDisjoint'
  BY <1>5 DEF RemoveRow, RowIsStored, SawIsDisjoint
<1>6. CASE Crash
  BY <1>6 DEF Crash, RowIsStored, SawIsDisjoint
<1>7. CASE UNCHANGED hostVars
  BY <1>7 DEF hostVars, RowIsStored, SawIsDisjoint
<1> QED BY <1>1, <1>2, <1>3, <1>4, <1>5, <1>6, <1>7 DEF Next

LEMMA Invariance == Spec => []IInv
  BY InitIInv, IInvStep, PTL DEF Spec

(***************************************************************************)
(* Rows and creations keep their types.                                    *)
(***************************************************************************)
THEOREM TypeCorrect == Spec => []TypeOK
<1>1. IInv => TypeOK
  BY DEF IInv
<1> QED BY <1>1, Invariance, PTL

(***************************************************************************)
(* Two rows of a node share a host port only if neither creation read the  *)
(* other's row, for any number of servers and any interleaving.            *)
(***************************************************************************)
THEOREM ClashImpliesOverlap == Spec => []ClashOnlyIfOverlapping
<1>1. IInv => ClashOnlyIfOverlapping
  BY DEF IInv, RowIsStored, SawIsDisjoint, ClashOnlyIfOverlapping, Clash
<1> QED BY <1>1, Invariance, PTL

-----------------------------------------------------------------------------
(* The settings *)

LEMMA BooleanSettings ==
  ASSUME NEW field, field.type = "boolean"
  PROVE  Settings(field) = BOOLEAN
BY DEF Settings

LEMMA RangeSettings ==
  ASSUME NEW field, field.type = "range"
  PROVE  Settings(field) = field.min .. field.max
BY DEF Settings

(***************************************************************************)
(* EnvVarField.tsx: a control shows the setting its text was written for.  *)
(* parseInt takes 0 for no number, and falls back to the minimum, which is *)
(* then 0.                                                                 *)
(***************************************************************************)
LEMMA ShownOnChange ==
  ASSUME NEW field, WellFormed(field), NEW x, Possible(field, x)
  PROVE  Shown(field, OnChange(field, x)) = x
<1>1. CASE field.type = "boolean"
  <2>1. x = TRUE \/ x = FALSE
    BY <1>1, BooleanSettings DEF Possible
  <2>2. OnChange(field, x) = IF x THEN <<"true">> ELSE <<"false">>
    BY <1>1 DEF OnChange, Bool
  <2>3. <<"true">> # <<"false">>
    OBVIOUS
  <2>4. \A y : Shown(field, y) = (y = <<"true">>)
    BY <1>1 DEF Shown
  <2>5. x = TRUE => Shown(field, OnChange(field, x)) = x
    BY <2>2, <2>4
  <2>6. x = FALSE => Shown(field, OnChange(field, x)) = x
    BY <2>2, <2>3, <2>4
  <2> QED
    BY <2>1, <2>5, <2>6, Zenon
<1>2. CASE field.type = "range"
  <2>1. x \in field.min .. field.max /\ field.min \in Nat /\ field.max \in Nat
    BY <1>2, RangeSettings DEF Possible, WellFormed
  <2>2. PICK text : text = <<x, field.unit>>
    OBVIOUS
  <2>3. Len(text) = 2 /\ text[1] = x
    BY <2>2
  <2>4. OnChange(field, x) = text
    BY <1>2, <2>2 DEF OnChange
  <2>5. Shown(field, text) = IF x # 0 THEN x ELSE field.min
    BY <1>2, <2>3 DEF Shown
  <2> QED
    BY <2>1, <2>4, <2>5
<1>3. CASE field.type = "select"
  <2>1. x \in Settings(field)
    BY <1>3 DEF Possible
  <2>2. PICK text : text = <<x>>
    OBVIOUS
  <2>3. text[1] = x
    BY <2>2
  <2>4. OnChange(field, x) = text
    BY <1>3, <2>2 DEF OnChange
  <2> QED
    BY <1>3, <2>1, <2>3, <2>4 DEF Shown
<1>4. CASE field.type \notin {"boolean", "range", "select"}
  <2>1. PICK text : text = <<x>>
    OBVIOUS
  <2>2. text[1] = x
    BY <2>1
  <2>3. OnChange(field, x) = text
    BY <1>4, <2>1 DEF OnChange
  <2> QED
    BY <1>4, <2>2, <2>3 DEF Shown
<1> QED
  BY <1>1, <1>2, <1>3, <1>4

\* resolve-env.ts and CreateServerPage.tsx write a default as the control would.
LEMMA DefaultAsMoved ==
  ASSUME NEW field, WellFormed(field), NEW d \in field.default
  PROVE  DefaultToString(field) = {OnChange(field, d)}
<1>1. field.default = {d}
  BY DEF WellFormed
<1>2. CASE field.type = "range"
  BY <1>1, <1>2 DEF DefaultToString, OnChange
<1>3. CASE field.type = "boolean"
  BY <1>1, <1>3 DEF DefaultToString, OnChange
<1>4. CASE field.type \notin {"range", "boolean"}
  BY <1>1, <1>4 DEF DefaultToString, OnChange
<1> QED
  BY <1>2, <1>3, <1>4

(***************************************************************************)
(* What the container gets of a form that was filled in: for every setting *)
(* that was moved or has a default, its text.                              *)
(***************************************************************************)
Text(fields, moved, key) == OnChange(fields[key], Wanted(fields, moved, key))
Texts(fields, moved) == [key \in Settled(fields, moved) |-> Text(fields, moved, key)]

Refused(fields, moved) == \E key \in DOMAIN fields \ Settled(fields, moved) : fields[key].required

\* A form, or a request, holds these texts and no others.
FilledIn(fields, moved, texts) ==
  /\ \A key \in DOMAIN moved : key \in DOMAIN fields /\ Possible(fields[key], moved[key])
  /\ texts = Texts(fields, moved)

(***************************************************************************)
(* The form's state holds these texts all the time: the effect on a change *)
(* of the template writes the defaults and forgets what was moved, and a   *)
(* control that is moved replaces its own text.  The request holds those   *)
(* of the moment it was sent, and the answer was made from them.           *)
(***************************************************************************)
FormInv ==
  /\ template \in DOMAIN Schemas /\ sent.template \in DOMAIN Schemas
  /\ page # "closed" => FilledIn(schema, asked, env)
  /\ page \in {"pending", "refused", "created"} =>
       FilledIn(Schemas[sent.template], sent.asked, sent.env)
  /\ page = "created" => container = Texts(Schemas[sent.template], sent.asked)
  /\ page \in {"refused", "created"} =>
       (page = "refused" <=> Refused(Schemas[sent.template], sent.asked))

\* Every setting that is settled is one its control can show.
LEMMA WantedPossible ==
  ASSUME NEW i \in DOMAIN Schemas, NEW moved, NEW texts, FilledIn(Schemas[i], moved, texts),
         NEW key \in Settled(Schemas[i], moved)
  PROVE  /\ key \in DOMAIN Schemas[i]
         /\ Possible(Schemas[i][key], Wanted(Schemas[i], moved, key))
<1>1. /\ key \in DOMAIN Schemas[i]
      /\ key \in DOMAIN moved \/ Schemas[i][key].default # {}
  BY DEF Settled
<1>2. CASE key \in DOMAIN moved
  BY <1>1, <1>2 DEF FilledIn, Wanted
<1>3. CASE key \notin DOMAIN moved
  <2>1. Wanted(Schemas[i], moved, key) \in Schemas[i][key].default
    BY <1>1, <1>3 DEF Wanted
  <2> QED
    BY <1>1, <2>1, SchemasAssumption DEF WellFormed
<1> QED
  BY <1>2, <1>3

(***************************************************************************)
(* resolveEnv: a request that says what was moved, and of the rest either  *)
(* nothing or the default, gives the container the same environment.       *)
(***************************************************************************)
LEMMA ResolvesTo ==
  ASSUME NEW i \in DOMAIN Schemas, NEW moved, NEW request,
         DOMAIN moved \subseteq DOMAIN request, DOMAIN request \subseteq Settled(Schemas[i], moved),
         \A key \in DOMAIN request : request[key] = Text(Schemas[i], moved, key)
  PROVE  /\ ResolveEnv(Schemas[i], request) = Texts(Schemas[i], moved)
         /\ MissingFields(Schemas[i], request) = {} <=> ~Refused(Schemas[i], moved)
<1> DEFINE fields == Schemas[i]
           settled == Settled(fields, moved)
<1>1. ASSUME NEW key \in DOMAIN fields
      PROVE  Candidate(fields, request, key) =
               IF key \in settled THEN {Text(fields, moved, key)} ELSE {}
  <2>1. CASE key \in DOMAIN request
    BY <2>1 DEF Candidate
  <2>2. CASE key \notin DOMAIN request
    <3>1. Candidate(fields, request, key) = DefaultToString(fields[key])
      BY <2>2 DEF Candidate
    <3>2. key \notin DOMAIN moved
      BY <2>2
    <3>3. CASE fields[key].default = {}
      BY <3>1, <3>2, <3>3 DEF DefaultToString, Settled
    <3>4. CASE fields[key].default # {}
      <4>1. key \in settled /\ Wanted(fields, moved, key) \in fields[key].default
        BY <3>2, <3>4 DEF Settled, Wanted
      <4>2. DefaultToString(fields[key]) = {Text(fields, moved, key)}
        BY <4>1, SchemasAssumption, DefaultAsMoved DEF Text
      <4> QED
        BY <3>1, <4>1, <4>2
    <3> QED
      BY <3>3, <3>4
  <2> QED
    BY <2>1, <2>2
<1>2. {k \in DOMAIN fields : Candidate(fields, request, k) # {}} = settled
  BY <1>1 DEF Settled
<1>3. \A key \in settled :
        (CHOOSE v \in Candidate(fields, request, key) : TRUE) = Text(fields, moved, key)
  BY <1>1 DEF Settled
<1>4. ResolveEnv(fields, request) = Texts(fields, moved)
  BY <1>2, <1>3 DEF ResolveEnv, Texts
<1>5. MissingFields(fields, request) = {} <=> ~Refused(fields, moved)
  BY <1>1 DEF MissingFields, Refused
<1> QED
  BY <1>4, <1>5

\* What a form that is filled in makes of the container, or of the answer.
LEMMA FilledInResolves ==
  ASSUME NEW i \in DOMAIN Schemas, NEW moved, NEW texts, FilledIn(Schemas[i], moved, texts)
  PROVE  /\ ResolveEnv(Schemas[i], texts) = Texts(Schemas[i], moved)
         /\ MissingFields(Schemas[i], texts) = {} <=> ~Refused(Schemas[i], moved)
<1>1. /\ DOMAIN texts = Settled(Schemas[i], moved)
      /\ \A key \in DOMAIN texts : texts[key] = Text(Schemas[i], moved, key)
  BY DEF FilledIn, Texts
<1>2. DOMAIN moved \subseteq Settled(Schemas[i], moved)
  BY DEF FilledIn, Settled
<1> QED
  BY <1>1, <1>2, ResolvesTo

\* The defaults of a template fill the form in.
LEMMA SelectFills ==
  ASSUME NEW i \in DOMAIN Schemas, Select(i)
  PROVE  FilledIn(schema, asked, env)' /\ template' = i /\ UNCHANGED <<sent, container>>
<1>1. template' = i /\ asked' = <<>> /\ env' = DefaultsFor(Schemas[i]) /\ schema' = Schemas[i]
  BY DEF Select, schema
<1>2. DOMAIN asked' = {}
  BY <1>1
<1>3. Settled(schema, asked)' = {k \in DOMAIN Schemas[i] : Schemas[i][k].default # {}}
  BY <1>1, <1>2 DEF Settled
<1>4. ASSUME NEW key \in Settled(schema, asked)'
      PROVE  DefaultsFor(Schemas[i])[key] = Text(schema, asked, key)'
  <2>1. PICK d : d = CHOOSE x \in Schemas[i][key].default : TRUE
    OBVIOUS
  <2>2. Text(schema, asked, key)' = OnChange(Schemas[i][key], d)
    BY <1>1, <1>2, <2>1 DEF Text, Wanted
  <2>3. DefaultsFor(Schemas[i])[key] =
          CASE Schemas[i][key].type = "range"   -> <<d, Schemas[i][key].unit>>
            [] Schemas[i][key].type = "boolean" -> Bool(d)
            [] OTHER                            -> <<d>>
    BY <1>3, <2>1 DEF DefaultsFor
  <2>4. CASE Schemas[i][key].type = "range"
    BY <2>2, <2>3, <2>4 DEF OnChange
  <2>5. CASE Schemas[i][key].type = "boolean"
    BY <2>2, <2>3, <2>5 DEF OnChange
  <2>6. CASE Schemas[i][key].type \notin {"range", "boolean"}
    BY <2>2, <2>3, <2>6 DEF OnChange
  <2> QED
    BY <2>4, <2>5, <2>6
<1>5. env' = Texts(schema, asked)'
  BY <1>1, <1>3, <1>4 DEF DefaultsFor, Texts
<1> QED
  BY <1>1, <1>2, <1>5 DEF FilledIn, Select

\* A control that is moved has its text replaced.
LEMMA MoveFills ==
  ASSUME FormInv, NEW key \in Visible(schema), NEW x \in Settings(schema[key]), Move(key, x)
  PROVE  FilledIn(schema, asked, env)'
<1>1. /\ page # "closed" /\ schema' = schema
      /\ env' = With(env, key, OnChange(schema[key], x)) /\ asked' = With(asked, key, x)
  BY DEF Move, Editing, schema
<1>2. key \in DOMAIN schema /\ Possible(schema[key], x)
  BY DEF Visible, Possible
<1>3. DOMAIN asked' = DOMAIN asked \cup {key}
  BY <1>1 DEF With
<1>4. \A k \in DOMAIN asked' : asked'[k] = IF k = key THEN x ELSE asked[k]
  BY <1>1 DEF With
<1>5. Settled(schema, asked)' = Settled(schema, asked) \cup {key}
  BY <1>1, <1>2, <1>3 DEF Settled
<1>6. ASSUME NEW k \in Settled(schema, asked)'
      PROVE  Text(schema, asked, k)' =
               IF k = key THEN OnChange(schema[key], x) ELSE Text(schema, asked, k)
  <2>1. Wanted(schema, asked, k)' = IF k = key THEN x ELSE Wanted(schema, asked, k)
    BY <1>1, <1>3, <1>4 DEF Wanted
  <2> QED
    BY <1>1, <2>1 DEF Text
<1>7. FilledIn(schema, asked, env)
  BY <1>1 DEF FormInv
<1>8. /\ DOMAIN env = Settled(schema, asked)
      /\ \A k \in Settled(schema, asked) : env[k] = Text(schema, asked, k)
  BY <1>7 DEF FilledIn, Texts
<1>9. env' = [k \in Settled(schema, asked)' |->
                IF k = key THEN OnChange(schema[key], x) ELSE Text(schema, asked, k)]
  BY <1>1, <1>5, <1>8 DEF With
<1>10. env' = Texts(schema, asked)'
  BY <1>6, <1>9 DEF Texts
<1>11. \A k \in DOMAIN asked' : k \in DOMAIN schema' /\ Possible(schema'[k], asked'[k])
  BY <1>1, <1>2, <1>3, <1>4, <1>7 DEF FilledIn
<1> QED
  BY <1>10, <1>11 DEF FilledIn

LEMMA EditSafe ==
  ASSUME FormInv, page # "closed", UNCHANGED <<page, sent, container>>,
         template' \in DOMAIN Schemas, FilledIn(schema, asked, env)'
  PROVE  FormInv'
BY DEF FormInv

LEMMA SubmitSafe ==
  ASSUME FormInv, Submit
  PROVE  FormInv'
<1>1. /\ page # "closed" /\ page' = "pending" /\ UNCHANGED <<template, env, asked, schema>>
      /\ sent'.template = template /\ sent'.env = env /\ sent'.asked = asked
  BY DEF Submit, schema
<1>2. template \in DOMAIN Schemas /\ FilledIn(schema, asked, env)
  BY <1>1 DEF FormInv
<1>3. FilledIn(Schemas[sent.template], sent.asked, sent.env)'
  BY <1>1, <1>2 DEF schema
<1>4. FilledIn(schema, asked, env)'
  BY <1>1, <1>2
<1> QED
  BY <1>1, <1>2, <1>3, <1>4 DEF FormInv

LEMMA AnswerSafe ==
  ASSUME FormInv, Answer
  PROVE  FormInv'
<1>1. page = "pending" /\ UNCHANGED <<template, env, asked, sent, schema>>
  BY DEF Answer, schema
<1>2. sent.template \in DOMAIN Schemas /\ FilledIn(Schemas[sent.template], sent.asked, sent.env)
  BY <1>1 DEF FormInv
<1>3. /\ ResolveEnv(Schemas[sent.template], sent.env) = Texts(Schemas[sent.template], sent.asked)
      /\ MissingFields(Schemas[sent.template], sent.env) = {}
           <=> ~Refused(Schemas[sent.template], sent.asked)
  BY <1>2, FilledInResolves
<1>4. IF Refused(Schemas[sent.template], sent.asked)
      THEN page' = "refused"
      ELSE page' = "created" /\ container' = Texts(Schemas[sent.template], sent.asked)
  BY <1>3 DEF Answer
<1>5. FilledIn(schema, asked, env)'
  BY <1>1 DEF FormInv
<1>6. FilledIn(Schemas[sent.template], sent.asked, sent.env)'
  BY <1>1, <1>2
<1>7. /\ Refused(Schemas[sent.template], sent.asked)' = Refused(Schemas[sent.template], sent.asked)
      /\ Texts(Schemas[sent.template], sent.asked)' = Texts(Schemas[sent.template], sent.asked)
  BY <1>1
<1> QED
  BY <1>1, <1>4, <1>5, <1>6, <1>7 DEF FormInv

LEMMA FormStep == FormInv /\ [FormNext]_formVars => FormInv'
<1> SUFFICES ASSUME FormInv, [FormNext]_formVars PROVE FormInv'
  OBVIOUS
<1>1. CASE OpenForm
  <2>1. page' = "open" /\ Select(1) /\ 1 \in DOMAIN Schemas
    BY <1>1, SchemasAssumption DEF OpenForm
  <2>2. FilledIn(schema, asked, env)' /\ template' = 1 /\ UNCHANGED sent
    BY <2>1, SelectFills
  <2> QED
    BY <2>1, <2>2 DEF FormInv
<1>2. CASE Submit
  BY <1>2, SubmitSafe
<1>3. CASE Answer
  BY <1>3, AnswerSafe
<1>4. CASE Fail
  <2>1. /\ page = "pending" /\ page' = "open" /\ sent' = Blank
        /\ UNCHANGED <<template, env, asked, schema>>
    BY <1>4 DEF Fail, schema
  <2>2. sent'.template \in DOMAIN Schemas
    BY <2>1, SchemasAssumption DEF Blank
  <2>3. FilledIn(schema, asked, env)'
    BY <2>1 DEF FormInv
  <2> QED
    BY <2>1, <2>2, <2>3 DEF FormInv
<1>5. CASE Leave
  BY <1>5, SchemasAssumption DEF Leave, FormInv, Blank
<1>6. ASSUME NEW i \in DOMAIN Schemas, ChangeTemplate(i) PROVE FormInv'
  BY <1>6, SelectFills, EditSafe DEF ChangeTemplate, Editing
<1>7. ASSUME NEW key \in Visible(schema), NEW x \in Settings(schema[key]), Move(key, x)
      PROVE  FormInv'
  BY <1>7, MoveFills, EditSafe DEF Move, Editing, FormInv
<1>8. CASE UNCHANGED formVars
  BY <1>8 DEF formVars, FormInv, schema
<1> QED
  BY <1>1, <1>2, <1>3, <1>4, <1>5, <1>6, <1>7, <1>8 DEF FormNext

LEMMA FormInvariance == FormSpec => []FormInv
<1>1. FormInit => FormInv
  BY SchemasAssumption DEF FormInit, FormInv, Blank
<1> QED
  BY <1>1, FormStep, PTL DEF FormSpec

(***************************************************************************)
(* The container gets what the form of CreateServerPage showed when it was *)
(* sent, for any templates whose defaults their controls can show and      *)
(* however often the form is filled in, edited while the answer is         *)
(* awaited, refused and filled in again.                                   *)
(***************************************************************************)
THEOREM CreatedIsAsShown == FormSpec => []CreatedAsShown
<1>1. FormInv => CreatedAsShown
  <2> SUFFICES ASSUME FormInv PROVE CreatedAsShown
    OBVIOUS
  <2>1. ASSUME NEW i \in DOMAIN Schemas, NEW moved, NEW texts, FilledIn(Schemas[i], moved, texts)
        PROVE  /\ DOMAIN texts = Settled(Schemas[i], moved)
               /\ \A key \in Settled(Schemas[i], moved) :
                    Shown(Schemas[i][key], texts[key]) = Wanted(Schemas[i], moved, key)
    <3>1. /\ DOMAIN texts = Settled(Schemas[i], moved)
          /\ \A key \in Settled(Schemas[i], moved) : texts[key] = Text(Schemas[i], moved, key)
      BY <2>1 DEF FilledIn, Texts
    <3>2. ASSUME NEW key \in Settled(Schemas[i], moved)
          PROVE  Shown(Schemas[i][key], texts[key]) = Wanted(Schemas[i], moved, key)
      <4>1. /\ key \in DOMAIN Schemas[i] /\ WellFormed(Schemas[i][key])
            /\ Possible(Schemas[i][key], Wanted(Schemas[i], moved, key))
        BY <2>1, WantedPossible, SchemasAssumption
      <4> QED
        BY <3>1, <4>1, ShownOnChange DEF Text
    <3> QED
      BY <3>1, <3>2
  <2>2. Editing => \A k \in Settled(schema, asked) \cap Visible(schema) :
          k \in DOMAIN env /\ Shown(schema[k], env[k]) = Wanted(schema, asked, k)
    BY <2>1 DEF Editing, FormInv, schema
  <2>3. page = "created" => FilledIn(Schemas[sent.template], sent.asked, container)
    BY DEF FormInv, FilledIn
  <2>4. page \in {"refused", "created"} =>
          (page = "refused" <=> Refused(Schemas[sent.template], sent.asked))
    BY DEF FormInv
  <2>5. sent.template \in DOMAIN Schemas
    BY DEF FormInv
  <2> QED
    BY <2>1, <2>2, <2>3, <2>4, <2>5 DEF CreatedAsShown, Refused
<1> QED
  BY <1>1, FormInvariance, PTL

(***************************************************************************)
(* The defaults the browser writes, those resolve-env.ts writes, and what  *)
(* a control would write are the same texts.                               *)
(***************************************************************************)
THEOREM DefaultsAlwaysAgree == FormSpec => []DefaultsAgree
<1>1. FormInv => DefaultsAgree
  <2> SUFFICES ASSUME FormInv, page = "created" PROVE DefaultsAgree
    BY DEF DefaultsAgree
  <2>1. PICK i \in DOMAIN Schemas : i = sent.template
    BY DEF FormInv
  <2>2. PICK moved : moved = sent.asked
    OBVIOUS
  <2> DEFINE request == [k \in DOMAIN moved |-> OnChange(Schemas[i][k], moved[k])]
  <2>3. container = Texts(Schemas[i], moved) /\ FilledIn(Schemas[i], moved, sent.env)
    BY <2>1, <2>2 DEF FormInv
  <2>4. DOMAIN request = DOMAIN moved /\ DOMAIN moved \subseteq Settled(Schemas[i], moved)
    BY <2>3 DEF FilledIn, Settled
  <2>5. \A key \in DOMAIN request : request[key] = Text(Schemas[i], moved, key)
    BY DEF Text, Wanted
  <2>6. ResolveEnv(Schemas[i], request) = Texts(Schemas[i], moved)
    <3> HIDE DEF request
    <3> QED
      BY <2>4, <2>5, ResolvesTo
  <2> QED
    BY <2>1, <2>2, <2>3, <2>6 DEF DefaultsAgree, Texts, Text
<1> QED
  BY <1>1, FormInvariance, PTL

-----------------------------------------------------------------------------
(***************************************************************************)
(* The loop of PortAllocatorService.allocate, for any range, any ports in  *)
(* use and any list of container ports.                                    *)
(***************************************************************************)

\* A set of natural numbers has a least one.
LEMMA Least ==
  ASSUME NEW T \in SUBSET Nat, T # {}
  PROVE  \E x \in T : \A y \in T : x <= y
<1> DEFINE Lt == {ss \in Nat \X Nat : ss[1] < ss[2]}
<1>1. IsWellFoundedOn(Lt, Nat)
  BY NatLessThanWellFounded, Zenon DEF OpToRel
<1>2. PICK x \in T : \A y \in T : ~(<<y, x>> \in Lt)
  <2> HIDE DEF Lt
  <2> QED
    BY <1>1, WFMin, Zenon
<1>3. ASSUME NEW y \in T, y < x PROVE FALSE
  <2>1. <<y, x>> \in Nat \X Nat /\ <<y, x>>[1] < <<y, x>>[2]
    BY <1>3
  <2>2. <<y, x>> \in Lt
    BY <2>1
  <2> QED
    BY <1>2, <2>2
<1> QED
  BY <1>3

\* What holds at 0, and of n + 1 when it holds of n, holds of no set of
\* exceptions: there is no least one.
LEMMA NoException ==
  ASSUME NEW T \in SUBSET Nat, 0 \notin T, \A n \in Nat : n \notin T => n + 1 \notin T
  PROVE  T = {}
<1> SUFFICES ASSUME T # {} PROVE FALSE
  OBVIOUS
<1>1. PICK x \in T : \A y \in T : x <= y
  BY Least
<1>2. x \in Nat /\ x # 0 /\ x - 1 \in Nat
  BY <1>1
<1>3. x - 1 \in T
  BY <1>2
<1> QED
  BY <1>1, <1>2, <1>3

\* firstFree finds the lowest free port when there is one.
LEMMA FirstFreeIsLowest ==
  ASSUME NEW used, ~(HostRange \subseteq used)
  PROVE  /\ FirstFree(used) \in HostRange \ used
         /\ \A q \in HostRange \ used : FirstFree(used) <= q
<1>1. HostRange \ used \in SUBSET Nat /\ HostRange \ used # {}
  BY RangeAssumption DEF HostRange
<1>2. \E p \in HostRange \ used : \A q \in HostRange \ used : p <= q
  BY <1>1, Least
<1> QED
  BY <1>2 DEF FirstFree

\* The states of the loop after 0, 1, ..., n ports.
States(f, used, ports, n) ==
  f = [k \in 0 .. n |-> IF k = 0 THEN LoopStart(used) ELSE LoopBody(f[k - 1], ports[k])]

LEMMA LoopRuns ==
  ASSUME NEW used, NEW ports, NEW n \in Nat
  PROVE  \E f : States(f, used, ports, n)
<1> DEFINE T == {k \in Nat : ~\E f : States(f, used, ports, k)}
<1>1. 0 \notin T
  <2> DEFINE f == [k \in 0 .. 0 |-> LoopStart(used)]
  <2>1. f = [k \in 0 .. 0 |-> IF k = 0 THEN LoopStart(used) ELSE LoopBody(f[k - 1], ports[k])]
    OBVIOUS
  <2>2. States(f, used, ports, 0)
    BY <2>1 DEF States
  <2> QED
    BY <2>2
<1>2. ASSUME NEW k \in Nat, k \notin T PROVE k + 1 \notin T
  <2>1. PICK f : States(f, used, ports, k)
    BY <1>2
  <2> DEFINE g == [i \in 0 .. k + 1 |-> IF i = k + 1 THEN LoopBody(f[k], ports[k + 1]) ELSE f[i]]
  <2>2. \A i \in 0 .. k : g[i] = f[i] /\ i \in 0 .. k + 1 /\ i # k + 1
    OBVIOUS
  <2>3. \A i \in 0 .. k : f[i] = IF i = 0 THEN LoopStart(used) ELSE LoopBody(f[i - 1], ports[i])
    BY <2>1 DEF States
  <2>4. ASSUME NEW i \in 0 .. k + 1
        PROVE  g[i] = IF i = 0 THEN LoopStart(used) ELSE LoopBody(g[i - 1], ports[i])
    <3>1. CASE i = k + 1
      <4>1. i - 1 = k /\ k \in 0 .. k /\ i # 0
        BY <3>1
      <4> HIDE DEF g
      <4>2. g[i - 1] = f[k]
        BY <2>2, <4>1
      <4>3. g[i] = LoopBody(f[k], ports[k + 1])
        BY <3>1 DEF g
      <4> QED
        BY <3>1, <4>1, <4>2, <4>3
    <3>2. CASE i = 0
      <4>1. 0 \in 0 .. k
        OBVIOUS
      <4> HIDE DEF g
      <4> QED
        BY <2>2, <2>3, <3>2, <4>1
    <3>3. CASE i # k + 1 /\ i # 0
      <4>1. i \in 0 .. k /\ i - 1 \in 0 .. k
        BY <3>3
      <4> HIDE DEF g
      <4>2. g[i] = f[i] /\ g[i - 1] = f[i - 1]
        BY <2>2, <4>1
      <4>3. f[i] = LoopBody(f[i - 1], ports[i])
        BY <2>3, <3>3, <4>1
      <4> QED
        BY <3>3, <4>2, <4>3
    <3> QED
      BY <3>1, <3>2, <3>3
  <2>5. g = [i \in 0 .. k + 1 |-> g[i]]
    OBVIOUS
  <2> HIDE DEF g
  <2>6. States(g, used, ports, k + 1)
    BY <2>4, <2>5 DEF States
  <2> QED
    BY <2>6
<1>3. T = {}
  <2> HIDE DEF T
  <2>1. T \in SUBSET Nat
    BY DEF T
  <2> QED
    BY <1>1, <1>2, <2>1, NoException
<1> QED
  BY <1>3

(***************************************************************************)
(* What the loop knows after the container ports D: each has a host port   *)
(* of its own, and these are the lowest free ones; or the free part of the *)
(* range is smaller than D.                                                *)
(***************************************************************************)
Chosen(st) == {st.hostPort[c] : c \in DOMAIN st.hostPort}

LoopState(st) == [ok |-> st.ok, used |-> st.used, hostPort |-> st.hostPort]

LoopInv(used, D, st) ==
  /\ st = LoopState(st) /\ st.ok \in BOOLEAN
  /\ st.ok => /\ DOMAIN st.hostPort = D
              /\ Chosen(st) \in LowestFree(used, Cardinality(D))
              /\ st.used = used \cup Chosen(st)
  /\ ~st.ok => Cardinality(HostRange \ used) < Cardinality(D)

\* The range is finite.
LEMMA FreeIsFinite ==
  ASSUME NEW used
  PROVE  /\ IsFiniteSet(HostRange \ used)
         /\ \A P \in SUBSET (HostRange \ used) :
              IsFiniteSet(P) /\ Cardinality(P) <= Cardinality(HostRange \ used)
<1>1. IsFiniteSet(HostRange)
  BY FS_Interval, RangeAssumption DEF HostRange
<1>2. IsFiniteSet(HostRange \ used)
  <2>1. HostRange \ used \in SUBSET HostRange
    OBVIOUS
  <2> QED
    BY <1>1, <2>1, FS_Subset
<1> QED
  BY <1>2, FS_Subset

\* The lowest free port beside the lowest `need` ones makes the lowest
\* `need` + 1.
LEMMA OneMore ==
  ASSUME NEW used, NEW need \in Nat, NEW P \in LowestFree(used, need),
         ~(HostRange \subseteq used \cup P)
  PROVE  LET p == FirstFree(used \cup P)
         IN  p \notin P /\ P \cup {p} \in LowestFree(used, need + 1)
<1> DEFINE p == FirstFree(used \cup P)
           free == HostRange \ used
<1>1. P \in SUBSET free /\ Cardinality(P) = need /\ \A x \in P, q \in free \ P : x < q
  BY DEF LowestFree
<1>2. p \in HostRange \ (used \cup P) /\ \A q \in HostRange \ (used \cup P) : p <= q
  BY FirstFreeIsLowest
<1> HIDE DEF p
<1>3. p \in free \ P /\ P \cup {p} \in SUBSET free
  BY <1>1, <1>2
<1>4. Cardinality(P \cup {p}) = need + 1
  BY <1>1, <1>3, FreeIsFinite, FS_AddElement
<1>5. ASSUME NEW x \in P \cup {p}, NEW q \in free \ (P \cup {p}) PROVE x < q
  <2>1. q \in free \ P /\ q \in HostRange \ (used \cup P) /\ q # p
    BY <1>5
  <2>2. CASE x \in P
    BY <1>1, <2>1, <2>2
  <2>3. CASE x = p
    <3>1. p <= q /\ p \in Int /\ q \in Int
      BY <1>2, <2>1, RangeAssumption DEF HostRange
    <3> QED
      BY <2>1, <2>3, <3>1
  <2> QED
    BY <1>5, <2>2, <2>3
<1>6. P \cup {p} \in LowestFree(used, need + 1)
  BY <1>3, <1>4, <1>5 DEF LowestFree
<1> QED
  BY <1>3, <1>6 DEF p

\* One iteration of the loop.
LEMMA LoopStep ==
  ASSUME NEW used, NEW D, IsFiniteSet(D), NEW st, LoopInv(used, D, st), NEW port
  PROVE  LoopInv(used, D \cup {port}, LoopBody(st, port))
<1> DEFINE E == D \cup {port}
           k == Cardinality(D)
<1>1. /\ IsFiniteSet(E) /\ k \in Nat /\ Cardinality(E) \in Nat
      /\ Cardinality(E) = IF port \in D THEN k ELSE k + 1
  BY FS_AddElement, FS_CardinalityType
<1>2. Cardinality(HostRange \ used) \in Nat
  BY FreeIsFinite, FS_CardinalityType
<1>3. CASE ~st.ok
  <2>1. LoopBody(st, port) = st
    BY <1>3 DEF LoopBody
  <2>2. Cardinality(HostRange \ used) < Cardinality(E)
    BY <1>1, <1>2, <1>3 DEF LoopInv
  <2> QED
    BY <1>3, <2>1, <2>2 DEF LoopInv
<1>4. CASE st.ok /\ port \in D
  <2>1. LoopBody(st, port) = st /\ E = D
    BY <1>4 DEF LoopBody, LoopInv
  <2> QED
    BY <2>1
<1>5. CASE st.ok /\ port \notin D
  <2> DEFINE P == Chosen(st)
             free == HostRange \ used
  <2>1. DOMAIN st.hostPort = D /\ P \in LowestFree(used, k) /\ st.used = used \cup P
    BY <1>5 DEF LoopInv
  <2>2. P \in SUBSET free /\ Cardinality(P) = k
    BY <2>1 DEF LowestFree
  <2>3. CASE HostRange \subseteq st.used
    <3>1. P = free
      BY <2>1, <2>2, <2>3
    <3>2. LoopBody(st, port) = [st EXCEPT !.ok = FALSE]
      BY <1>5, <2>1, <2>3 DEF LoopBody
    <3>3. /\ LoopBody(st, port) = [ok |-> FALSE, used |-> st.used, hostPort |-> st.hostPort]
      BY <3>2 DEF LoopInv, LoopState
    <3>4. Cardinality(free) < Cardinality(E)
      BY <1>1, <1>5, <2>2, <3>1
    <3> HIDE DEF E, k, P, free
    <3> QED
      BY <3>3, <3>4 DEF LoopInv, LoopState, free, E
  <2>4. CASE ~(HostRange \subseteq st.used)
    <3> DEFINE p == FirstFree(used \cup P)
               f == [c \in D \cup {port} |-> IF c = port THEN p ELSE st.hostPort[c]]
               new == [ok |-> TRUE, used |-> st.used \cup {p}, hostPort |-> f]
    <3>1. LoopBody(st, port) = new
      BY <1>5, <2>1, <2>4 DEF LoopBody
    <3>2. P \cup {p} \in LowestFree(used, k + 1)
      BY <1>1, <2>1, <2>4, OneMore
    <3> HIDE DEF p
    <3>3. {f[c] : c \in E} = P \cup {p}
      <4>1. \A c \in D : f[c] = st.hostPort[c]
        BY <1>5
      <4>2. f[port] = p
        OBVIOUS
      <4> HIDE DEF f
      <4> QED
        BY <2>1, <4>1, <4>2 DEF Chosen
    <3>4. DOMAIN f = E
      OBVIOUS
    <3>5. Chosen(new) = P \cup {p}
      <4> HIDE DEF f, E, P
      <4> QED
        BY <3>3, <3>4 DEF Chosen
    <3>6. Cardinality(E) = k + 1
      BY <1>1, <1>5
    <3>7. new.used = used \cup (P \cup {p})
      BY <2>1
    <3> HIDE DEF f, E, P, k
    <3>8. new.ok /\ DOMAIN new.hostPort = E /\ new = LoopState(new)
      BY <3>4 DEF LoopState
    <3> HIDE DEF new
    <3>9. LoopInv(used, E, new)
      BY <3>2, <3>5, <3>6, <3>7, <3>8 DEF LoopInv
    <3> QED
      BY <3>1, <3>9 DEF E
  <2> QED
    BY <2>3, <2>4
<1> QED
  BY <1>3, <1>4, <1>5 DEF LoopInv

(***************************************************************************)
(* The whole loop: from a growing prefix of the list to all of it.         *)
(***************************************************************************)
Met(ports, k) == {ports[i] : i \in 1 .. k}

LEMMA LoopInvariant ==
  ASSUME NEW used, NEW ports, NEW n \in Nat, NEW f, States(f, used, ports, n)
  PROVE  \A k \in 0 .. n : IsFiniteSet(Met(ports, k)) /\ LoopInv(used, Met(ports, k), f[k])
<1> DEFINE Holds(k) == IsFiniteSet(Met(ports, k)) /\ LoopInv(used, Met(ports, k), f[k])
           T == {k \in Nat : k \in 0 .. n /\ ~Holds(k)}
<1>1. \A k \in 0 .. n :
        f[k] = IF k = 0 THEN LoopStart(used) ELSE LoopBody(f[k - 1], ports[k])
  BY DEF States
<1>2. 0 \notin T
  <2>1. Met(ports, 0) = {}
    BY DEF Met
  <2>2. f[0] = LoopStart(used)
    BY <1>1
  <2>3. IsFiniteSet({}) /\ Cardinality({}) = 0
    BY FS_EmptySet
  <2>4. LoopStart(used) = LoopState(LoopStart(used)) /\ LoopStart(used).ok
    BY DEF LoopStart, LoopState
  <2>5. DOMAIN LoopStart(used).hostPort = {}
    BY DEF LoopStart
  <2>6. Chosen(LoopStart(used)) = {}
    BY <2>5 DEF Chosen
  <2>7. LoopStart(used).used = used \cup {}
    BY DEF LoopStart
  <2>8. {} \in LowestFree(used, 0)
    BY <2>3 DEF LowestFree
  <2>9. LoopInv(used, {}, LoopStart(used))
    BY <2>3, <2>4, <2>5, <2>6, <2>7, <2>8 DEF LoopInv
  <2> QED
    BY <2>1, <2>2, <2>3, <2>9
<1>3. ASSUME NEW k \in Nat, k \notin T PROVE k + 1 \notin T
  <2> SUFFICES ASSUME k + 1 \in 0 .. n PROVE Holds(k + 1)
    OBVIOUS
  <2>1. Holds(k) /\ f[k + 1] = LoopBody(f[k], ports[k + 1])
    <3>1. k \in 0 .. n /\ k + 1 # 0 /\ (k + 1) - 1 = k
      OBVIOUS
    <3> QED
      BY <1>1, <1>3, <3>1
  <2>2. Met(ports, k + 1) = Met(ports, k) \cup {ports[k + 1]}
    <3>1. 1 .. k + 1 = (1 .. k) \cup {k + 1}
      OBVIOUS
    <3> QED
      BY <3>1 DEF Met
  <2>3. IsFiniteSet(Met(ports, k + 1))
    BY <2>1, <2>2, FS_AddElement
  <2> QED
    BY <2>1, <2>2, <2>3, LoopStep
<1>4. T = {}
  <2> HIDE DEF T
  <2>1. T \in SUBSET Nat
    BY DEF T
  <2> QED
    BY <1>2, <1>3, <2>1, NoException
<1> QED
  BY <1>4

(***************************************************************************)
(* PortAllocatorService.allocate for any ports in use and any list: it     *)
(* throws exactly when fewer host ports are free than the list names       *)
(* different container ports, and otherwise hands out the lowest ones.     *)
(***************************************************************************)
THEOREM LoopComputes ==
  ASSUME NEW used, NEW ports, Len(ports) \in Nat, DOMAIN ports = 1 .. Len(ports)
  PROVE  LET result == Allocate(used, ports)
             free   == LowestFree(used, Cardinality(ToSet(ports)))
         IN  IF result.ok
             THEN /\ DOMAIN result.hostPort = ToSet(ports)
                  /\ {result.hostPort[p] : p \in ToSet(ports)} \in free
             ELSE free = {}
<1> DEFINE n == Len(ports)
           f == CHOOSE g : States(g, used, ports, n)
           result == Allocate(used, ports)
<1>1. States(f, used, ports, n)
  BY LoopRuns
<1>2. result = f[n]
  BY DEF Allocate, States
<1>3. Met(ports, n) = ToSet(ports)
  BY DEF Met, ToSet
<1> HIDE DEF f, n, result
<1>4. n \in Nat /\ n \in 0 .. n
  BY DEF n
<1>5. IsFiniteSet(ToSet(ports)) /\ LoopInv(used, ToSet(ports), result)
  BY <1>1, <1>2, <1>3, <1>4, LoopInvariant
<1>6. CASE result.ok
  BY <1>5, <1>6 DEF LoopInv, Chosen, result
<1>7. CASE ~result.ok
  <2> DEFINE free == HostRange \ used
             need == Cardinality(ToSet(ports))
  <2>1. Cardinality(free) < need /\ need \in Nat /\ Cardinality(free) \in Nat
    BY <1>5, <1>7, FreeIsFinite, FS_CardinalityType DEF LoopInv
  <2>2. ASSUME NEW P \in LowestFree(used, need) PROVE FALSE
    <3>1. P \in SUBSET free /\ Cardinality(P) = need
      BY <2>2 DEF LowestFree
    <3>2. Cardinality(P) <= Cardinality(free)
      BY <3>1, FreeIsFinite
    <3> HIDE DEF free, need
    <3> QED
      BY <2>1, <3>1, <3>2
  <2>3. LowestFree(used, need) = {}
    BY <2>2
  <2> QED
    BY <1>7, <2>3 DEF result
<1> QED
  BY <1>6, <1>7

\* The lists the creations are checked with are sequences.
LEMMA ListsAreSequences ==
  ASSUME NEW ports \in PortLists
  PROVE  Len(ports) \in Nat /\ DOMAIN ports = 1 .. Len(ports)
<1>1. CASE ports = Minecraft.ports \/ ports = SevenDays.ports
  <2>1. Minecraft.ports = <<25565>> /\ SevenDays.ports = <<26900, 26900, 26901, 26902>>
    BY DEF Minecraft, SevenDays
  <2> QED
    BY <1>1, <2>1
<1>2. CASE ports \in BoundedSeq({25565, 26900, 26901}, 3)
  <2>1. PICK m \in 0 .. 3 : ports \in [1 .. m -> {25565, 26900, 26901}]
    BY <1>2 DEF BoundedSeq, SeqOf
  <2>2. ports \in Seq({25565, 26900, 26901})
    BY <2>1
  <2> QED
    BY <2>2
<1> QED
  BY <1>1, <1>2 DEF PortLists

(***************************************************************************)
(* allocate and the model of it agree in every state a creation finds the  *)
(* rows in, for any range, servers and nodes.                              *)
(***************************************************************************)
THEOREM LoopAlwaysAgrees == Spec => []LoopAgrees
<1>1. LoopAgrees
  <2> SUFFICES ASSUME NEW s \in Servers, NEW ports \in PortLists,
                      Cardinality(ToSet(ports)) = create[s].need
               PROVE  LET result == Allocate(UsedOn(create[s].node), ports)
                          free   == LowestFree(UsedOn(create[s].node), create[s].need)
                      IN  IF result.ok
                          THEN /\ DOMAIN result.hostPort = ToSet(ports)
                               /\ {result.hostPort[p] : p \in ToSet(ports)} \in free
                          ELSE free = {}
    BY DEF LoopAgrees
  <2>1. Len(ports) \in Nat /\ DOMAIN ports = 1 .. Len(ports)
    BY ListsAreSequences
  <2> QED
    BY <2>1, LoopComputes
<1> QED
  BY <1>1, PTL
=============================================================================
