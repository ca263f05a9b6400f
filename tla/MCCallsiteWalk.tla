---------------------------- MODULE MCCallsiteWalk ----------------------------
(* A file with a factory, `make', whose result is kept under names, an       *)
(* attribute and a cache. The name of the factory may itself be given        *)
(* another value, its own result or that of a second factory, `build'.       *)
EXTENDS CallsiteWalk, TLC

MCNames == {"make", "wrap", "h", "k", "f", "C", "other", "self.h", "set", "cache", "cache.set",
            "xs.map", "map", "app.on", "on", "?.h", "self.make", "build"}

MCLastName == [n \in MCNames |->
                 CASE n \in {"self.h", "?.h"} -> "h"
                   [] n = "self.make" -> "make"
                   [] n = "cache.set" -> "set"
                   [] n = "xs.map" -> "map"
                   [] n = "app.on" -> "on"
                   [] OTHER -> n]

made == Call(Ref("make"), <<>>)
built == Call(Ref("build"), <<>>)
attribute == Call(Ref("self.make"), <<>>)
Use(name) == Call(Ref(name), <<>>)
To(name, value) == Assign(<<Ref(name)>>, value)

\* Kept results, calls of them, and values that replace them.
Kept ==
  {Assign(<<Subscript("cache")>>, Call(made, <<>>)), To("h", made), To("self.h", made), To("?.h", made),
   Assign(<<Ref("h"), Ref("k")>>, made), Assign(<<Subscript("cache")>>, made),
   To("h", Ref("other")), To("make", Ref("other")), To("make", made),
   To("make", built), To("self.make", Ref("other")),
   To("h", Call(Ref("wrap"), <<Use("h")>>))}

Using ==
  {Use("h"), Use("self.h"), Call(made, <<>>), Call(attribute, <<>>), Call(Ref("xs.map"), <<made>>),
   Call(Ref("app.on"), <<made>>), Call(Ref("cache.set"), <<made>>)}

Nesting ==
  {Function("f", {}, <<>>), Function("f", {"h"}, <<Use("h")>>), Function("f", {"make"}, <<>>),
   Function("make", {}, <<>>), Function(NoName, {"h"}, <<>>), Class("C")}

MCCalls == Using \cup {made, built, attribute, Call(Ref("wrap"), <<Use("h")>>)}
MCStatements == Kept \cup Using \cup Nesting
===============================================================================
