---------------------------- MODULE MCRenderCache ----------------------------
(* Instances of RenderCache for TLC. *)
EXTENDS RenderCache

Index == <<"articles">>
Article == <<"articles", "1">>
Archive == <<"articles-archive">>

MCPages == {Index, Article}
MCTargets == {Article, Archive, <<>>}
MCStartsWith(s, t) == s = t \/ (s = "articles-archive" /\ t = "articles")
=============================================================================
