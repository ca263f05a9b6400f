--------------------------- MODULE SemanticRoles ---------------------------
(***************************************************************************)
(* The semantic roles of a function: what its path, its declaration and    *)
(* its body say about why it may repeat.                                   *)
(*                                                                         *)
(* Source: analysis/semantic_roles.py and the semantic_roles.py of the     *)
(* Python and ECMAScript adapters.                                         *)
(*                                                                         *)
(* A declaration is a record:                                              *)
(*   name, public   the name, and whether it has no leading underscore     *)
(*   special        Python: the group of special names it is in, "dunder"  *)
(*                  for another name in double underscores, or "none"      *)
(*   decorators     Python: their dotted names                             *)
(*   syntax         ECMAScript: the kind of the syntax node                *)
(*   modifiers      ECMAScript: the modifiers in its signature             *)
(*   wording        ECMAScript: what its name looks like                   *)
(*   returns        ECMAScript: "element", "descriptor" or "plain", by the *)
(*                  annotation                                             *)
(*   overload       ECMAScript: without a body, beside one with a body     *)
(* A form is what the classifiers read of a body:                          *)
(*   statements     without the docstring, [is, ...]                       *)
(*   elements, hook whether it has JSX, and a hook call                    *)
(*   keys, registers  whether it has keys of a command descriptor, and a   *)
(*                  call to a registry                                     *)
(* An expression is a constant, a read [root, attributes, index], a call   *)
(* [callee, arguments], an await or a starred argument [of], or other. The *)
(* index of a read is the set of its subscripts; root "other" is what is   *)
(* no name. What await and * are applied to is none of these two.          *)
(***************************************************************************)
EXTENDS FileRoles

SimpleForwarderMaxLines == [python |-> 5, ecmascript |-> 6]

When(condition, roles) == IF condition THEN roles ELSE {}

-----------------------------------------------------------------------------
(* Roles of the path.                                                       *)

GeneratedName(path, language) ==
  IF language = "python"
  THEN \/ Under(path, {Word("_cython")})
       \/ "generated" \in ToSet(path.name.words)
       \/ Ends(path.name, "_", "cy") /\ path.suffix = "py"
  ELSE \E i \in DOMAIN path.name.joints : path.name.joints[i] = "." /\ path.name.words[i + 1] = "pnp"

DeclarationFile(path, language) ==
  /\ language = "ecmascript"
  /\ Ends(path.name, ".", "d") /\ path.suffix \in {"ts", "mts", "cts"}

ExampleMarkers == {Word("demo"), Word("demos"), Word("example"), Word("examples")}

PathRoles(path, role, language) ==
  When(role \in {"generated", "vendor", "build_output"} \/ GeneratedName(path, language),
       {"generated_or_cython_boundary"})
  \cup When(role \in {"test", "fixture"}, {"test_code"})
  \cup When(Under(path, ExampleMarkers), {"example_code"})
  \cup When(DeclarationFile(path, language), {"declaration_boundary", "abstract_or_interface_stub"})

-----------------------------------------------------------------------------
(* Bodies of one operation. The ECMAScript classifier looks through await   *)
(* everywhere, the Python one around a whole statement only.                *)

Unwrapped(e) == IF e.is = "await" THEN e.of ELSE e
Bare(e) == e.is = "constant" \/ (e.is = "read" /\ e.root # "other")
IsRead(e, Inner(_)) ==
  /\ Inner(e).is = "read" /\ Inner(e).root # "other"
  /\ \A i \in Inner(e).index : Bare(Inner(i))
IsOperand(e, Inner(_)) ==
  LET value == IF Inner(e).is = "starred" THEN Inner(Inner(e).of) ELSE Inner(e)
  IN  value.is = "constant" \/ IsRead(value, Inner)
OneOperation(e, Inner(_)) ==
  IF e.is = "call"
  THEN IsRead(e.callee, Inner) /\ \A a \in e.arguments : IsOperand(a, Inner)
  ELSE e.is = "none" \/ IsOperand(e, Inner)

Itself(e) == e

PythonTrivialBody(form) ==
  \/ form.statements = <<>>
  \/ /\ Len(form.statements) = 1
     /\ LET s == form.statements[1] IN
        \/ s.is = "pass"
        \/ s.is = "assign" /\ IsRead(s.target, Itself) /\ IsOperand(s.value, Itself)
        \/ s.is \in {"return", "expression"} /\ OneOperation(Unwrapped(s.value), Itself)

EcmascriptTrivialBody(form) ==
  \/ form.statements = <<>>
  \/ /\ Len(form.statements) = 1
     /\ LET s == form.statements[1] IN
        \/ s.is = "assign" /\ IsRead(s.target, Unwrapped) /\ IsOperand(s.value, Unwrapped)
        \/ s.is \in {"return", "expression"} /\ OneOperation(Unwrapped(s.value), Unwrapped)

(* The call that is the whole body: of an attribute of an attribute of self *)
(* in Python, of any member in ECMAScript.                                  *)
NoCall == [is |-> "none"]
WholeCall(form) ==
  IF Len(form.statements) = 1 /\ form.statements[1].is \in {"return", "expression"}
  THEN Unwrapped(form.statements[1].value)
  ELSE NoCall
DelegatesToAttribute(call) ==
  /\ call.is = "call" /\ call.callee.is = "read"
  /\ call.callee.root = "self" /\ call.callee.index = {} /\ Len(call.callee.attributes) > 1
DelegatesToMember(call) ==
  call.is = "call" /\ call.callee.is = "read" /\ call.callee.attributes # <<>>

CallsMethod(e, name) ==
  e.is = "call" /\ e.callee.is = "read" /\ e.callee.attributes # <<>> /\ Last(e.callee.attributes) = name
(* .name( anywhere in the text of the body.                                 *)
MentionsCall(call, name) ==
  CallsMethod(call, name) \/ \E a \in call.arguments : CallsMethod(Unwrapped(a), name)

-----------------------------------------------------------------------------
(* Python.                                                                  *)

NameRoles(special) ==
  CASE special = "none" -> {}
    [] special = "dunder" -> {"custom_dunder_or_framework_hook"}
    [] special = "other" -> {"python_special_method"}
    [] OTHER -> {special, "python_special_method"}

OverloadDecorators == {<<"overload">>, <<"typing", "overload">>, <<"typing_extensions", "overload">>}
AbstractDecorators ==
  {<<"abstractmethod">>, <<"abc", "abstractmethod">>, <<"abstractclassmethod">>,
   <<"abstractstaticmethod">>, <<"abstractproperty">>}
PropertyDecorators ==
  {<<"property">>, <<"cached_property">>, <<"hybrid_property">>, <<"declared_attr">>,
   <<"util", "memoized_property">>}

(* Mutant: only the names of the list, not these after a module's name.     *)
DecoratorsMatchExactly(decorators, known) == decorators \cap known # {}

(* A known name, or one with the known name at one of its dots.             *)
DecoratorsMatch(decorators, known) ==
  \E d \in decorators, k \in known :
    \E i \in 1..Len(d) - Len(k) + 1 : SubSeq(d, i, i + Len(k) - 1) = k

StubBody(form) ==
  \/ form.statements = <<>>
  \/ /\ Len(form.statements) = 1
     /\ LET s == form.statements[1] IN
        \/ s.is = "pass"
        \/ s.is = "expression" /\ s.value = [is |-> "constant", what |-> "ellipsis"]
        \/ s.is = "raise" /\ s.what = "NotImplementedError"
        \/ s.is = "return" /\ s.value.is = "read" /\ s.value.root = "NotImplemented"
           /\ s.value.attributes = <<>> /\ s.value.index = {}

PythonRoles(d, form, lines) ==
  LET call == IF lines <= SimpleForwarderMaxLines.python THEN WholeCall(form) ELSE NoCall
      forwards == DelegatesToAttribute(call)
  IN  NameRoles(d.special)
      \cup When(DecoratorsMatch(d.decorators, OverloadDecorators), {"typing_overload"})
      \cup When(DecoratorsMatch(d.decorators, AbstractDecorators) \/ StubBody(form),
                {"abstract_or_interface_stub"})
      \cup When(DecoratorsMatch(d.decorators, PropertyDecorators), {"property_accessor"})
      \cup When(PythonTrivialBody(form), {"trivial_body"})
      \cup When(forwards, {"adapter_forwarder"})
      \cup When(forwards /\ d.public /\ CallsMethod(call, d.name), {"public_api_mirror"})

-----------------------------------------------------------------------------
(* ECMAScript.                                                              *)

AbstractSignature(d) == d.syntax = "abstract_method_signature" \/ "abstract" \in d.modifiers
DeclarationSignature(d) == d.syntax \in {"function_signature", "method_signature"}
HasBody(d) == ~(DeclarationSignature(d) \/ AbstractSignature(d) \/ d.overload)
SignatureRoles(d) ==
  When(~HasBody(d), {"declaration_boundary", "abstract_or_interface_stub"})
  \cup When(d.overload, {"overload_signature"})

Accessor(d) == d.modifiers \cap {"get", "set"} # {}
SimpleReturn(form) ==
  /\ Len(form.statements) = 1 /\ ~form.keys
  /\ form.statements[1].is = "return" /\ form.statements[1].value.is # "none"
RenderSurface(d, form) ==
  d.returns = "element" \/ (HasBody(d) /\ form.elements /\ d.wording = "component")
CommandOrRegistrySurface(d, form) ==
  /\ HasBody(d)
  /\ \/ d.returns = "descriptor" /\ form.keys
     \/ d.wording = "registry" /\ (form.keys \/ form.registers)
TinyContractLikeMethod(d, form, lines) ==
  /\ d.syntax = "method_definition" /\ d.wording # "constructor" /\ ~Accessor(d)
  /\ lines <= SimpleForwarderMaxLines.ecmascript /\ HasBody(d) /\ SimpleReturn(form)
  /\ \/ d.wording \in {"predicate", "contract"}
     \/ d.modifiers \cap {"override", "protected", "public", "static"} # {}

EcmascriptRoles(d, form, lines) ==
  LET call == IF HasBody(d) THEN WholeCall(form) ELSE NoCall
      forwards == DelegatesToMember(call)
  IN  SignatureRoles(d)
      \cup When(HasBody(d) /\ EcmascriptTrivialBody(form), {"trivial_body"})
      \cup When(d.wording = "constructor", {"constructor"})
      \cup When(Accessor(d), {"property_accessor"})
      \cup When(RenderSurface(d, form), {"framework_render_surface"})
      \cup When(HasBody(d) /\ form.hook /\ d.wording = "hook", {"framework_hook"})
      \cup When(d.wording = "connector", {"framework_connector"})
      \cup When(CommandOrRegistrySurface(d, form), {"command_or_registry_surface"})
      \cup When(TinyContractLikeMethod(d, form, lines), {"implementation_contract_method"})
      \cup When(forwards, {"adapter_forwarder"})
      \cup When(forwards /\ MentionsCall(call, d.name), {"public_api_mirror"})

-----------------------------------------------------------------------------
(* The roles of a function in a file.                                       *)

SemanticRoles(path, role, language, d, form, lines) ==
  LET roles == PathRoles(path, role, language)
               \cup IF language = "python" THEN PythonRoles(d, form, lines)
                    ELSE EcmascriptRoles(d, form, lines)
  IN  IF roles = {} THEN {"normal_function"} ELSE roles

=============================================================================
