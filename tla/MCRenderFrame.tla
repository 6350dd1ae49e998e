--------------------------- MODULE MCRenderFrame ---------------------------
EXTENDS RenderFrame

MCTop == <<"panel">>
MCInner == [i \in {"panel"} |-> <<"label">>]
=============================================================================
