----------------------------- MODULE MCDescribe -----------------------------
(* Instances of DescribeStage small enough to enumerate.                    *)
EXTENDS DescribeStage, TLC

\* Two tables of one name in two schemas, and a third.
ThreeTables == <<"dbo.A", "sales.A", "dbo.B">>
Spellings == {"dbo.A", "sales.A", "DBO.b", "A"}
FoldOf == ("dbo.A" :> "dbo.a") @@ ("sales.A" :> "sales.a") @@ ("dbo.B" :> "dbo.b")
          @@ ("DBO.b" :> "dbo.b") @@ ("dbo.a" :> "dbo.a") @@ ("A" :> "a") @@ ("B" :> "b")
TailsOf == ("dbo.a" :> {"a"}) @@ ("sales.a" :> {"a"}) @@ ("dbo.b" :> {"b"})
           @@ ("a" :> {}) @@ ("b" :> {})
=============================================================================
