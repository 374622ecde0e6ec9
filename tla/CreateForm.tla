----------------------------- MODULE CreateForm -----------------------------
(***************************************************************************)
(* The form of CreateServerPage with the settings of a server, and what    *)
(* ServersController.create makes of the request it sends.  The API knows  *)
(* the defaults as well, so a request may leave fields out.                *)
(***************************************************************************)
EXTENDS Templates

CONSTANT Schemas   \* the envSchema of every template

\* TEMPLATE_DEFINITIONS is not empty.
ASSUME SchemasAssumption ==
  /\ 1 \in DOMAIN Schemas
  /\ \A i \in DOMAIN Schemas : \A key \in DOMAIN Schemas[i] : WellFormed(Schemas[i][key])

VARIABLES
  page,      \* "closed", "open", or what became of its request: "pending", "refused",
             \* "created"
  template,  \* templateSlug, as an index of Schemas
  env,       \* the form's state: the text of every setting that has one
  asked,     \* history: the settings of the controls the user moved
  sent,      \* the template and env of the request, and history: what was asked then
  container  \* the environment of the server that was created

formVars == <<page, template, env, asked, sent, container>>

Blank == [template |-> 1, env |-> <<>>, asked |-> <<>>]

FormInit ==
  /\ page = "closed" /\ template = 1 /\ env = <<>> /\ asked = <<>>
  /\ sent = Blank /\ container = <<>>

schema == Schemas[template]

\* The effect on [template]: every setting goes back to its default.
Select(i) ==
  /\ template' = i
  /\ env' = DefaultsFor(Schemas[i]) /\ asked' = <<>>
  /\ UNCHANGED <<sent, container>>

\* The first template is preselected.
OpenForm == page = "closed" /\ page' = "open" /\ Select(1)

\* Only the button knows that a request is pending.
Editing == page \in {"open", "pending", "refused"}

ChangeTemplate(i) == Editing /\ i # template /\ Select(i) /\ UNCHANGED page

\* setEnv((prev) => ({ ...prev, [key]: value }))
With(f, key, value) ==
  [k \in DOMAIN f \cup {key} |-> IF k = key THEN value ELSE f[k]]

\* A control is moved; hidden fields have none.
Move(key, setting) ==
  /\ Editing
  /\ env' = With(env, key, OnChange(schema[key], setting))
  /\ asked' = With(asked, key, setting)
  /\ UNCHANGED <<page, template, sent, container>>

\* POST /servers with what the form holds now.
Submit ==
  /\ page \in {"open", "refused"} /\ page' = "pending"
  /\ sent' = [template |-> template, env |-> env, asked |-> asked]
  /\ UNCHANGED <<template, env, asked, container>>

\* resolveEnv throws BadRequestException for a missing field.
Answer ==
  /\ page = "pending"
  /\ LET fields == Schemas[sent.template]
     IN  IF MissingFields(fields, sent.env) = {}
         THEN page' = "created" /\ container' = ResolveEnv(fields, sent.env)
         ELSE page' = "refused" /\ UNCHANGED container
  /\ UNCHANGED <<template, env, asked, sent>>

\* Any other error: the form shows it, and can be sent again.
Fail ==
  /\ page = "pending" /\ page' = "open" /\ sent' = Blank
  /\ UNCHANGED <<template, env, asked, container>>

\* Cancel, or the page moves on to the new server; a request goes on without it.
Leave ==
  /\ page # "closed" /\ page' = "closed"
  /\ template' = 1 /\ env' = <<>> /\ asked' = <<>> /\ sent' = Blank /\ container' = <<>>

FormNext ==
  \/ OpenForm \/ Submit \/ Answer \/ Fail \/ Leave
  \/ \E i \in DOMAIN Schemas : ChangeTemplate(i)
  \/ \E key \in Visible(schema) : \E x \in Settings(schema[key]) : Move(key, x)

FormSpec == FormInit /\ [][FormNext]_formVars

-----------------------------------------------------------------------------
\* A visible field that is neither moved nor has a default is not settled: a slider
\* and a <select> show their first setting for it, but nothing is sent.
Settled(fields, moved) == {k \in DOMAIN fields : k \in DOMAIN moved \/ fields[k].default # {}}

Wanted(fields, moved, k) ==
  IF k \in DOMAIN moved THEN moved[k] ELSE CHOOSE d \in fields[k].default : TRUE

(***************************************************************************)
(* The container gets what the form showed when it was sent, whatever is   *)
(* edited until the answer comes: while the form is filled in, every       *)
(* control stands where the user put it, or at its template's default; the *)
(* texts the container then gets, put back into the controls, show the     *)
(* same.  A request is refused exactly for a required field that is        *)
(* neither set nor has a default (EnvVarField.tsx, resolve-env.ts).        *)
(***************************************************************************)
CreatedAsShown ==
  LET fields  == Schemas[sent.template]
      settled == Settled(fields, sent.asked)
  IN  /\ Editing => \A k \in Settled(schema, asked) \cap Visible(schema) :
           k \in DOMAIN env /\ Shown(schema[k], env[k]) = Wanted(schema, asked, k)
      /\ page = "created" =>
           /\ DOMAIN container = settled
           /\ \A k \in settled : Shown(fields[k], container[k]) = Wanted(fields, sent.asked, k)
      /\ page \in {"refused", "created"} =>
           (page = "refused" <=> \E k \in DOMAIN fields \ settled : fields[k].required)

(***************************************************************************)
(* One setting, one text: the environment is the same whether the browser  *)
(* writes a default, the API writes it because the request leaves it out,  *)
(* or the user moves the control to where it stands already.  This is what *)
(* CreateServerPage.tsx calls "matching resolve-env.ts server-side".       *)
(***************************************************************************)
DefaultsAgree ==
  page = "created" =>
    LET fields == Schemas[sent.template]
        moved  == sent.asked
    IN  /\ container = ResolveEnv(fields, [k \in DOMAIN moved |-> OnChange(fields[k], moved[k])])
        /\ container = [k \in Settled(fields, moved) |->
                          OnChange(fields[k], Wanted(fields, moved, k))]
=============================================================================
