-------------------------------- MODULE Params --------------------------------
(* The parameter set of a run: tpcdaq-params/1 JSON (src/src/params/schema.rs),*)
(* its rendering into an xcfg template (render.rs) and the extraction of       *)
(* defaults from one (extract.rs).  Rendering and extraction treat every knob  *)
(* by itself, so a behaviour follows one knob: a template is the texts found   *)
(* at its positions, a position an instance of the CoBo node and the ids of    *)
(* the AsAd, AGET and channel nodes down to the knob's scope.                  *)
EXTENDS Integers, Sequences, FiniteSets, SequencesExt, TLC

CONSTANTS
  ChannelIds,   \* ids of the channels in the template; may be empty
  MaxParts,     \* bound: explicit values in the template plus exceptions
  Sorted        \* only lists of exceptions that go from coarse to fine

ASSUME ParamsAssumption ==
  ChannelIds \subseteq Nat /\ MaxParts \in Nat /\ Sorted \in BOOLEAN

Star == 99         \* STAR, the id "*"
Absent == [form |-> "absent", n |-> 0]

(* TemplateIds: the explicit ids of each depth found in the template.          *)
IdsAt == <<{0, 1}, {0}, ChannelIds>>

(* KNOBS, one of each scope and kind.  A Real is written with its decimal      *)
(* point; an enumerated string and a Bool are a word; Derived maps a mode name *)
(* to a word.                                                                  *)
Knobs == {[name |-> "writingClockFrequency_MHz", scope |-> 0, kind |-> "real"],
          [name |-> "globalThreshold", scope |-> 2, kind |-> "int"],
          [name |-> "readout", scope |-> 2, kind |-> "mode"],
          [name |-> "gain", scope |-> 3, kind |-> "word"]}
Allowed == {1, 2}

-----------------------------------------------------------------------------
(* Values and texts: n tells the values apart, json and form how they are      *)
(* written.                                                                    *)
Json == [json : {"int", "num", "str"}, n : {1, 2, 9}]

(* check_value: the type a kind asks for, and its range or list.               *)
CheckValue(spec, v) ==
  /\ v.n \in Allowed
  /\ v.json \in CASE spec.kind = "int" -> {"int"}
                  [] spec.kind = "real" -> {"int", "num"}
                  [] OTHER -> {"str"}

(* value_to_xcfg_text, format_real                                             *)
ToText(spec, v) ==
  [form |-> CASE spec.kind = "int" -> "digits" [] spec.kind = "real" -> "decimal"
              [] OTHER -> "word",
   n |-> v.n]

(* decode: text_to_value and derived_mode.  A whole number is a Real, too.     *)
Readable(spec, t) ==
  /\ t.n \in Allowed
  /\ t.form \in CASE spec.kind = "int" -> {"digits"}
                  [] spec.kind = "real" -> {"digits", "decimal"}
                  [] OTHER -> {"word"}

ToValue(spec, t) ==
  [json |-> CASE spec.kind = "int" -> "int" [] spec.kind = "real" -> "num" [] OTHER -> "str",
   n |-> t.n]

-----------------------------------------------------------------------------
(* Positions.  Cobo is the number of an explicit instance, or Star.            *)
Paths(d) == {p \in [1 .. d -> {0, 1, Star} \cup ChannelIds] :
               \A i \in 1 .. d : p[i] \in IdsAt[i] \cup {Star}}
Positions(spec) == {0, Star} \X Paths(spec.scope)
AllStar(spec) == <<Star, [i \in 1 .. spec.scope |-> Star]>>
Places(spec) == {p \in Paths(spec.scope) : \A i \in DOMAIN p : p[i] # Star}

(* At: a prefix of the ids, not empty and not finer than the scope.            *)
Ats(spec) == UNION {{p \in Paths(d) : \A i \in 1 .. d : p[i] # Star} : d \in 1 .. spec.scope}

-----------------------------------------------------------------------------
(* Params::from_json_str, for the knob: its values and its exceptions.         *)
ValidParams(spec, ps) ==
  /\ CheckValue(spec, ps.uniform)
  /\ \A e \in ToSet(ps.exceptions) :
       Len(e.at) \in 1 .. spec.scope /\ CheckValue(spec, e.value)
  /\ \A i, j \in DOMAIN ps.exceptions :
       i # j => ps.exceptions[i].at # ps.exceptions[j].at

(* effective_value: of the exceptions that match, the first of the deepest.    *)
Matching(ps, place) == {i \in DOMAIN ps.exceptions : IsPrefix(ps.exceptions[i].at, place)}

Effective(ps, place) ==
  LET m == Matching(ps, place)
      depth(i) == Len(ps.exceptions[i].at)
  IN  IF m = {} THEN ps.uniform
      ELSE ps.exceptions[CHOOSE i \in m : \A j \in m :
             depth(j) < depth(i) \/ (depth(j) = depth(i) /\ i <= j)].value

(* CompoundConfig, as GET looks a value up: the place itself, or the uniform   *)
(* value.                                                                      *)
Resolve(spec, doc, place) ==
  IF doc[<<Star, place>>] # Absent THEN doc[<<Star, place>>] ELSE doc[AllStar(spec)]

(* TemplateIds::expand: the places below at that the template names.           *)
Expand(spec, at) == {p \in Places(spec) : IsPrefix(at, p)}

(* An exception whose scope has a level without ids cannot be expanded.        *)
CanExpand(spec, at) == \A d \in Len(at) + 1 .. spec.scope : IdsAt[d] # {}

(* remove_knob_from_explicit_nodes, then write_knob on the chain of `*`.       *)
Uniform(spec, text, doc) ==
  [pos \in DOMAIN doc |-> IF pos = AllStar(spec) THEN text ELSE Absent]

(* Mutant: the exception is written at its own node, below it `*`.             *)
WriteException_NotExpanded(spec, doc, e) ==
  LET pad == [i \in 1 .. spec.scope |-> IF i <= Len(e.at) THEN e.at[i] ELSE Star]
  IN  [doc EXCEPT ![<<Star, pad>>] = ToText(spec, e.value)]

(* write_knob for each place below an exception.                               *)
WriteException(spec, doc, e) ==
  [pos \in DOMAIN doc |->
     IF pos[1] = Star /\ pos[2] \in Expand(spec, e.at) THEN ToText(spec, e.value) ELSE doc[pos]]

(* render: the uniform value, then the exceptions in the order of the list.    *)
Render(spec, ps, doc) ==
  FoldLeft(LAMBDA d, e : WriteException(spec, d, e),
           Uniform(spec, ToText(spec, ps.uniform), doc), ps.exceptions)

Renderable(spec, ps) ==
  /\ ValidParams(spec, ps)
  /\ \A e \in ToSet(ps.exceptions) : CanExpand(spec, e.at)

(* walk and classify: a value below Instance[*] whose explicit ids come before *)
(* every `*` is an exception; any other explicit value cannot be expressed.    *)
Explicit(spec, doc) == {pos \in DOMAIN doc : pos # AllStar(spec) /\ doc[pos] # Absent}

Expressible(pos) ==
  pos[1] = Star /\ \A i, j \in DOMAIN pos[2] : i < j /\ pos[2][j] # Star => pos[2][i] # Star

AtOf(path) == SelectSeq(path, LAMBDA id : id # Star)

(* extract: the uniform value if it is there and readable, the explicit ones   *)
(* that can be expressed, and whether anything was left out (unset or          *)
(* unsupported).  The order of the exceptions is that of the document.         *)
Extract(spec, doc) ==
  LET star == doc[AllStar(spec)]
      ok(pos) == Expressible(pos) /\ Readable(spec, doc[pos])
      hits == {pos \in Explicit(spec, doc) : ok(pos)}
  IN  [complete |-> star # Absent /\ Readable(spec, star) /\ hits = Explicit(spec, doc),
       uniform |-> ToValue(spec, star),
       hits |-> {[at |-> AtOf(pos[2]), value |-> ToValue(spec, doc[pos])] : pos \in hits}]

-----------------------------------------------------------------------------
VARIABLES
  knob,      \* the knob followed
  template,  \* the texts of the template
  paramset,  \* the JSON: uniform value and list of exceptions
  loaded,    \* the JSON is what extract gave for the template
  made       \* the rendered document, or NotMade

paramVars == <<knob, template, paramset, loaded, made>>

NotMade == << >>

Texts(spec) == {Absent, ToText(spec, [n |-> 1]), [form |-> "digits", n |-> 2],
                [form |-> "word", n |-> 9]}

(* Templates with up to k explicit values.                                           *)
TemplatesWith(spec, k) ==
  {[pos \in Positions(spec) |->
      IF pos = AllStar(spec) THEN star ELSE IF pos \in DOMAIN f THEN f[pos] ELSE Absent] :
     star \in Texts(spec),
     f \in UNION {[S -> Texts(spec) \ {Absent}] : S \in {ToSet(q) : q \in [1 .. k -> Positions(spec) \ {AllStar(spec)}]}}}

Coarse(es) == \A i, j \in DOMAIN es : i < j => Len(es[i].at) <= Len(es[j].at)

ParamsWith(spec, k) ==
  {ps \in [uniform : {[json |-> "int", n |-> 9]} \cup {v \in Json : v.n = 1},
           exceptions : [1 .. k -> [at : Ats(spec), value : {v \in Json : CheckValue(spec, v)}]]] :
     Sorted => Coarse(ps.exceptions)}

ParamsInit ==
  /\ knob \in Knobs
  /\ \E k \in 0 .. MaxParts :
       \E ts \in {TemplatesWith(knob, k)}, pss \in {ParamsWith(knob, MaxParts - k)} :
         template \in ts /\ paramset \in pss
  /\ loaded = FALSE /\ made = NotMade

(* GET /api/params/defaults, put into the form: the exceptions in any order.   *)
LoadDefaults ==
  /\ made = NotMade /\ ~loaded
  /\ LET x == Extract(knob, template)
     IN  /\ x.complete
         /\ paramset' \in {[uniform |-> x.uniform, exceptions |-> es] : es \in SetToSeqs(x.hits)}
  /\ loaded' = TRUE
  /\ UNCHANGED <<knob, template, made>>

(* PUT /api/params: invalid parameters are refused.                            *)
RenderParams ==
  /\ made = NotMade
  /\ Renderable(knob, paramset)
  /\ made' = Render(knob, paramset, template)
  /\ UNCHANGED <<knob, template, paramset, loaded>>

ParamsNext == LoadDefaults \/ RenderParams

-----------------------------------------------------------------------------
(* Every variable has its type, and a rendered document keeps the shape of its *)
(* template: render writes values, and never adds or drops a node.             *)
ParamsTypeOK ==
  /\ knob \in Knobs /\ loaded \in BOOLEAN
  /\ DOMAIN template = Positions(knob)
  /\ made # NotMade => DOMAIN made = Positions(knob)

(* What GET reads from the rendered document is at every place the value       *)
(* effective_value shows the operator: the most specific exception, whatever   *)
(* the template held before.                                                   *)
MostSpecificWins ==
  made # NotMade =>
    \A place \in Places(knob) :
      Resolve(knob, made, place) = ToText(knob, Effective(paramset, place))

(* The same for lists that name the coarser exceptions first.                  *)
RenderedIsEffective == (made # NotMade /\ Coarse(paramset.exceptions)) => MostSpecificWins

(* Rendering is reversible: extract leaves nothing of a rendered document out, *)
(* gives the uniform value back, and its exceptions have the same effect; and  *)
(* rendering the result again changes nothing.                                 *)
ExtractInvertsRender ==
  made # NotMade =>
    LET x == Extract(knob, made)
    IN  /\ x.complete
        /\ ToText(knob, x.uniform) = ToText(knob, paramset.uniform)
        /\ \A es \in SetToSeqs(x.hits) :
             LET ps == [uniform |-> x.uniform, exceptions |-> es]
             IN  Renderable(knob, ps) /\ Render(knob, ps, made) = made

(* Defaults loaded from a template are accepted by from_json_str, and saving   *)
(* them unchanged gives every place the value the template gave it, if the     *)
(* template's explicit values all name a place.                                *)
DefaultsAreFaithful ==
  loaded =>
    /\ ValidParams(knob, paramset)
    /\ (made # NotMade /\ \A pos \in Explicit(knob, template) : pos[2] \in Places(knob)) =>
         \A place \in Places(knob) :
           Resolve(knob, made, place).n = Resolve(knob, template, place).n

(* The file the hardware reads says what the parameter set says, and a set  *)
(* taken from a file says what the file said (render, extract).             *)
ParamsFaithful ==
  /\ ParamsTypeOK /\ RenderedIsEffective /\ ExtractInvertsRender
  /\ DefaultsAreFaithful
==============================================================================
