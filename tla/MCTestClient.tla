---------------------------- MODULE MCTestClient ----------------------------
(* An instance of TestClient for TLC: two functions, whose parameters of the *)
(* same number have different types, so that what is left from one form does *)
(* not fit the next one.                                                     *)
EXTENDS TestClient

p(dir, type) == [dir |-> dir, type |-> type]

\* a text with an escape sequence, which is drawn as another text, and a plain one
typed == << "&lt;", "\\", "n", "\"", "x" >>
MCTexts == {<< >>, typed}
MCMeant == [t \in MCTexts |-> IF t = typed THEN << "&lt;", "LF", "\"", "x" >> ELSE t]

MCNames == {"send", "find"}
MCSig ==
    [n \in MCNames |->
        IF n = "send" THEN << p("In", "blobs"), p("InOut", "list"), p("Out", "text") >>
        ELSE << p("InOut", "text"), p("In", "unknown") >>]
=============================================================================
