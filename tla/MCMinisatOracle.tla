--------------------------- MODULE MCMinisatOracle ---------------------------
EXTENDS MinisatOracle
Literals == {Lit(l) : l \in (-NVars .. NVars) \ {0}}
\* Few arguments, some of them not literals, and the empty connectives.
Small == Literals \cup {Op("And", <<>>), Op("Or", <<>>), Op("Or", <<Lit(1), Lit(-2)>>)}
Pairs == {<<Lit(1), f>> : f \in Small}
Some == Small \cup {Op("Not", <<f>>) : f \in Small}
        \cup {Op(o, p) : o \in {"And", "Or"}, p \in Pairs}
        \cup {Op("Or", <<Op("And", <<Lit(1), Lit(-2)>>), Op("And", <<Lit(-1), Lit(2)>>)>>),
              Op("Not", <<Op("And", <<Op("Not", <<Lit(2)>>), Lit(1)>>)>>),
              Op("And", <<Op("Or", <<Lit(2)>>)>>)}
=============================================================================
