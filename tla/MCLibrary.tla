------------------------------ MODULE MCLibrary ------------------------------
(* Instances of Library for TLC. *)
EXTENDS Library, TLC

Names == {"A.jpg", "A.raf", "A.xmp", "a.jpg", "B.jpg"}
StemOf == "A.jpg" :> "A" @@ "A.raf" :> "A" @@ "A.xmp" :> "A" @@ "a.jpg" :> "a" @@ "B.jpg" :> "B"
RoleOf == "A.jpg" :> "jpeg" @@ "A.raf" :> "raw" @@ "A.xmp" :> "sidecar"
            @@ "a.jpg" :> "jpeg" @@ "B.jpg" :> "jpeg"
Lower == "A" :> "a" @@ "a" :> "a" @@ "B" :> "b"
\* what other programs create, change and delete
Disturbed == {"A.jpg", "A.raf", "a.jpg"}
=============================================================================
