----------------------------- MODULE Templates -----------------------------
(***************************************************************************)
(* The game templates, and the way of a setting from the form of           *)
(* CreateServerPage to the environment of a container.  Two programs write *)
(* a default as text: defaultsFor in the browser, for every field of the   *)
(* form, and resolveEnv in the API, for every field a request leaves out.  *)
(* EnvVarField turns text into the position of a control, and a moved      *)
(* control into text.                                                      *)
(*                                                                         *)
(* The text of an environment variable is a tuple: <<word>>, or            *)
(* <<n, unit>> for a number with a unit appended to it.                    *)
(***************************************************************************)
EXTENDS Integers, Sequences

(***************************************************************************)
(* A field of an envSchema.  `default` is empty or holds the one default;  *)
(* the options are in the order of the list.  Labels are left out.         *)
(***************************************************************************)
Bare(type) == [type |-> type, default |-> {}, required |-> FALSE,
               hidden |-> FALSE, options |-> <<>>, min |-> 0, max |-> 0, unit |-> ""]
Field(type, default) == [Bare(type) EXCEPT !.default = {default}]

MinecraftEnv ==
  [EULA       |-> [Field("boolean", TRUE) EXCEPT !.required = TRUE],
   VERSION    |-> [Field("select", "LATEST") EXCEPT !.options =
                     <<"LATEST", "1.20.4", "1.19.4", "1.18.2", "1.16.5", "1.12.2">>],
   MEMORY     |-> [Field("range", 2) EXCEPT !.min = 1, !.max = 8, !.unit = "G"],
   DIFFICULTY |-> [Field("select", "normal") EXCEPT !.options =
                     <<"peaceful", "easy", "normal", "hard">>]]

SevenDaysEnv ==
  [START_MODE      |-> [Field("string", "0") EXCEPT !.hidden = TRUE],
   UPDATE_CHECKING |-> [Field("string", "1") EXCEPT !.hidden = TRUE],
   BRANCH          |-> [Field("select", "public") EXCEPT !.options =
                          <<"public", "latest_experimental">>]]

\* The container ports, once for every protocol, and the environment.
Minecraft == [ports |-> <<25565>>, envSchema |-> MinecraftEnv]
SevenDays == [ports |-> <<26900, 26900, 26901, 26902>>, envSchema |-> SevenDaysEnv]

-----------------------------------------------------------------------------
(* resolve-env.ts *)

Bool(b) == IF b THEN <<"true">> ELSE <<"false">>

DefaultToStringUnitless(field) ==
  {CASE field.type = "range"   -> <<d, "">>
     [] field.type = "boolean" -> Bool(d)
     [] OTHER                  -> <<d>> : d \in field.default}

\* The text of the default, or nothing: `false` and 0 are defaults too.
DefaultToString(field) ==
  {CASE field.type = "range"   -> <<d, field.unit>>
     [] field.type = "boolean" -> Bool(d)
     [] OTHER                  -> <<d>> : d \in field.default}

CandidateDefaultFirst(schema, overrides, key) ==
  IF schema[key].default # {} THEN DefaultToString(schema[key])
  ELSE IF key \in DOMAIN overrides THEN {overrides[key]} ELSE {}

\* overrides[key] ?? defaultToString(field)
Candidate(schema, overrides, key) ==
  IF key \in DOMAIN overrides THEN {overrides[key]} ELSE DefaultToString(schema[key])

\* BadRequestException for the first of these, if there is one.
MissingFields(schema, overrides) ==
  {key \in DOMAIN schema : /\ schema[key].required
                           /\ Candidate(schema, overrides, key) = {}}

\* Overrides of keys the template does not have are dropped.
ResolveEnv(schema, overrides) ==
  [key \in {k \in DOMAIN schema : Candidate(schema, overrides, k) # {}} |->
     CHOOSE v \in Candidate(schema, overrides, key) : TRUE]

-----------------------------------------------------------------------------
(* CreateServerPage and EnvVarField *)

\* Written a second time in the browser; the form starts from it whenever
\* the template changes.
DefaultsFor(schema) ==
  [key \in {k \in DOMAIN schema : schema[k].default # {}} |->
     LET field == schema[key]
         d     == CHOOSE x \in field.default : TRUE
     IN  CASE field.type = "range"   -> <<d, field.unit>>
           [] field.type = "boolean" -> Bool(d)
           [] OTHER                  -> <<d>>]

\* A setting is what a control shows: a check mark, an option, a slider's
\* position, a text.
Settings(field) ==
  CASE field.type = "boolean" -> BOOLEAN
    [] field.type = "range"   -> field.min .. field.max
    [] field.type = "select"  -> {field.options[i] : i \in DOMAIN field.options}
    [] OTHER                  -> {"cleared", "typed"}

\* The setting a control shows for a text.  parseInt drops the unit; 0, like
\* a text without a number, falls back to the minimum; a <select> shows its
\* first option for a value that is not one.
Shown(field, text) ==
  CASE field.type = "boolean" -> text = <<"true">>
    [] field.type = "range"   -> IF Len(text) = 2 /\ text[1] # 0 THEN text[1] ELSE field.min
    [] field.type = "select"  -> IF text[1] \in Settings(field) THEN text[1]
                                 ELSE field.options[1]
    [] OTHER                  -> text[1]

\* What onChange hands to the form when the control is moved to a setting.
OnChange(field, setting) ==
  CASE field.type = "boolean" -> Bool(setting)
    [] field.type = "range"   -> <<setting, field.unit>>
    [] OTHER                  -> <<setting>>

Visible(schema) == {key \in DOMAIN schema : ~schema[key].hidden}

\* What a default can be: one the control can show, if it is not free text;
\* the positions of a slider are not negative.
Possible(field, x) ==
  field.type \in {"boolean", "range", "select"} => x \in Settings(field)

WellFormed(field) ==
  /\ \A d \in field.default : Possible(field, d) /\ \A e \in field.default : d = e
  /\ field.type = "range" => field.min \in Nat /\ field.max \in Nat

-----------------------------------------------------------------------------
\* A template with every case of EnvVarSchema the two games do not use: false
\* and 0 as defaults, a number without a unit, and fields without a default.
OtherEnv ==
  [PVP   |-> Field("boolean", FALSE),
   SLOTS |-> [Field("range", 0) EXCEPT !.max = 2],
   SPEED |-> [Bare("range") EXCEPT !.min = 1, !.max = 2, !.unit = "x"],
   MAP   |-> [Bare("select") EXCEPT !.options = <<"island", "valley">>],
   MOTD  |-> Bare("string"),
   NAME  |-> [Bare("string") EXCEPT !.required = TRUE]]

AllSchemas == <<MinecraftEnv, SevenDaysEnv, OtherEnv>>
=============================================================================
