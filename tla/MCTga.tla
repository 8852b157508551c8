--------------------------------- MODULE MCTga ---------------------------------
(* Small pictures for TLC, of every kind and size of pixel: rows and packets  *)
(* end inside and at the end of the buffer, packets go on over rows, files end*)
(* inside a pixel or a packet, and colour maps are looked up in turn.         *)
EXTENDS Tga, TLC

Fields == [id |-> 0, map |-> 0, kind |-> 2, first |-> 0, len |-> 0, entry |-> 0,
           width |-> 2, height |-> 2, bits |-> 24, alpha |-> 0, origin |-> 2]
Picture(fields, rest) == [head |-> fields @@ Fields, rest |-> rest]
H(kind, bits, origin) == (("kind" :> kind) @@ ("bits" :> bits) @@ ("origin" :> origin))
Mapped2 == ("map" :> 1) @@ ("len" :> 2) @@ ("entry" :> 24)
Wide(w, h) == ("width" :> w) @@ ("height" :> h)

Colors == <<0, 0, 9, 7, 7, 7>>
Good ==
  {\* true colours after two bytes of text, and a file that stops early
   Picture(H(2, 24, 2) @@ ("id" :> 2), <<99, 99, 1, 2, 3, 4, 5, 6, 7, 8, 9, 10, 11, 12>>),
   Picture(H(2, 24, 0), <<1, 2, 3, 4, 5, 6, 7, 8>>),
   Picture(H(2, 32, 0) @@ ("alpha" :> 8), <<1, 2, 3, 0, 4, 5, 6, 255, 7, 8, 9, 10, 0, 0, 0, 0>>),
   Picture(H(2, 16, 1), <<33, 4, 255, 127, 0, 0, 31, 0>>),
   Picture(H(3, 8, 0) @@ Wide(3, 2), <<0, 1, 2, 3, 254, 255>>),
   \* mapped: both colours in turn and one twice
   Picture(H(1, 8, 2) @@ Mapped2, Colors \o <<1, 0, 0, 1>>),
   Picture(H(1, 8, 0) @@ Mapped2 @@ Wide(1, 4), Colors \o <<0, 1, 0, 1>>),
   Picture(H(1, 8, 0) @@ ("entry" :> 32) @@ ("alpha" :> 8) @@ Mapped2 @@ Wide(2, 1),
           <<1, 2, 3, 0, 4, 5, 6, 255, 1, 0>>),
   \* a file that ends inside of its text
   Picture(H(10, 24, 0) @@ ("id" :> 9), <<99, 99, 99>>),
   \* compressed: a run over two rows, copies, and packets that end early
   Picture(H(9, 8, 0) @@ Mapped2 @@ Wide(3, 2), Colors \o <<130, 1, 1, 0, 1, 128, 0>>),
   Picture(H(10, 24, 2) @@ Wide(3, 2), <<0, 1, 2, 3, 131, 4, 5, 6, 1, 7, 8, 9, 10, 11, 12>>),
   Picture(H(10, 32, 0) @@ ("alpha" :> 8), <<2, 1, 2, 3, 0, 4, 5, 6, 7, 8, 9>>),
   Picture(H(10, 24, 0), <<129, 4, 5, 6, 129, 7, 8>>)}
Odd ==
  {\* kinds whose colours the parser does not expand, and a map out of reach
   Picture(H(11, 8, 0), <<131, 7>>),
   Picture(H(10, 16, 0), <<1, 1, 128, 2, 0, 129, 3, 0>>),
   Picture(H(9, 8, 2) @@ Mapped2, <<0, 0, 0, 7, 7, 7, 1, 1, 0, 129, 0>>),
   Picture(H(1, 8, 2) @@ Mapped2 @@ ("first" :> 40), <<1, 0, 1, 0>>),
   Picture(H(1, 8, 0) @@ Mapped2, Colors \o <<0, 5, 0, 1>>),
   Picture(H(2, 24, 2) @@ Wide(0, 0), <<1, 2, 3>>)}
Refused ==
  {Picture(H(0, 8, 0), <<>>), Picture(H(4, 8, 0), <<>>), Picture(H(2, 15, 0), <<>>),
   Picture(H(1, 8, 0) @@ ("map" :> 2), <<>>)}
SomePictures == Good \union Odd \union Refused
=============================================================================
