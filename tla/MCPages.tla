------------------------------ MODULE MCPages ------------------------------
(* Small instances of Pages for TLC. *)
EXTENDS Pages

Image(kind, lengths) == [kind |-> kind, lengths |-> lengths]
MCImages == {Image("raw", <<7>>), Image("raw", <<3, 1, 4>>), Image("raw", <<5, 0, 8>>),
             Image("raw", <<0>>), Image("ewf", <<8>>), Image("ewf", <<7>>),
             Image("dir", <<3, 0, 2>>), Image("dir", <<>>)}
Choice(pagesize, margin, start, end, page, one_in) ==
  [pagesize |-> pagesize, margin |-> margin, scan_start |-> start, scan_end |-> end,
   page_start |-> page, one_in |-> one_in]
MCOptions ==
  {Choice(2, 1, 0, 0, 0, 0), Choice(3, 4, 0, 0, 0, 0), Choice(2, 0, 3, 6, 0, 0),
   Choice(2, 2, 9, 0, 0, 0), Choice(2, 1, 0, 0, 1, 0),
   Choice(2, 1, 0, 0, 0, 6), Choice(2, 1, 4, 7, 0, 6), Choice(1, 1, 0, 0, 0, 6)}
=============================================================================
