------------------------------- MODULE MCSearch -------------------------------
EXTENDS Search

MCEdge == <<1, 2, 4, 5>>
MCSectors == <<4, 7, 14>>

At(r, x, y) == [radius |-> r, dir |-> <<x, y>>]
Node(p, c) == [place |-> p, coords |-> c]

MCAnchor == <<At(2, 5, 0), At(3, 3, 4), At(4, -3, 4), At(4, 3, 4), At(5, 4, -3)>>

MCKept ==
  {Node(Origin, <<>>), Node(Origin, <<1>>),
   Node(At(2, 5, 0), <<>>), Node(At(3, 3, 4), <<>>),
   Node(At(3, 4, 3), <<>>), Node(At(4, 4, 3), <<>>),
   Node(At(3, 4, -3), <<0, 2>>), Node(At(3, 4, -3), <<>>),
   Node(None, <<>>), Node(None, <<-3, 0, 1>>), Node(None, <<-2, -1, 0, 5>>),
   Node(None, <<2, 1>>), Node(None, <<0, 0, 0, 0, 1>>)}

MCLimits == {NoLimit, 14800, 15300, 24000}
MCSlices == {{}, {1}, {2}, 1 .. 2}

==============================================================================
