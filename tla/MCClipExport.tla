---------------------------- MODULE MCClipExport ----------------------------
EXTENDS ClipExport

P(t, k) == [pts |-> t, kind |-> k]
B(t, u) == [pts |-> t, uid |-> u]
\* two keyframes, one and a half groups, and a single frame; an interval is two units
Long  == <<P(0, "key"), P(1, "audio"), P(2, "delta"), P(4, "key"), P(5, "audio"), P(6, "delta")>>
Group == <<P(0, "key"), P(2, "delta"), P(3, "audio")>>
One   == <<P(0, "key")>>
\* one file; two that follow, overlap and leave a gap; a short one between two; files of one frame
Sets ==
  {<< <<Long>>, <<0>> >>, << <<One>>, <<0>> >>, << <<One, Group>>, <<0, 3>> >>} \cup
  {<< <<Long, Group>>, <<0, o>> >> : o \in {5, 8, 12}} \cup
  {<< <<Group, One, Long>>, <<0, 5, 7>> >>}
BoxSets == {<< >>, <<B(1, 1), B(3, 1), B(3, 2)>>, <<B(4, 2), B(5, 1), B(12, 1)>>}
Pic(w, h, pix) == [w |-> w, h |-> h, pix |-> pix]
MCTimes ==
  {[files |-> s[1], offsets |-> s[2], images |-> [i \in DOMAIN s[1] |-> Pic(16, 12, "YUV420P")],
    first |-> f, last |-> f + d, profile |-> p, size |-> [w |-> 0, h |-> 0], format |-> "H264",
    limit |-> lim, stamps |-> FALSE, boxes |-> b] :
     s \in Sets, f \in {0, 3, 7, 9}, d \in {0, 3, 20}, p \in {"original", "encode"}, lim \in BOOLEAN, b \in BoxSets}

\* the pictures: from a codec, from a device that decodes, and of two files that are not alike
Sources ==
  {<<a, a>> : a \in {Pic(16, 12, "YUV420P"), Pic(18, 10, "YUVJ420P"), Pic(18, 13, "NV12")}} \cup
  {<<Pic(16, 12, "YUV420P"), b>> : b \in {Pic(16, 10, "YUV420P"), Pic(16, 12, "NV12")}}
Sizes == {[w |-> w, h |-> h] : w \in {0, 7, 40}, h \in {0, 6}}
MCImages ==
  {c \in {[files |-> <<Group, One>>, offsets |-> <<0, 4>>, images |-> i, first |-> 0, last |-> 9, profile |-> p,
           size |-> s, format |-> f, limit |-> FALSE, stamps |-> st, boxes |-> b] :
            i \in Sources, p \in {None, "encode"}, s \in Sizes, f \in {"H264", "MJPEG", "GIF"}, st \in BOOLEAN,
            b \in {<< >>, <<B(1, 1)>>}} :
     c.profile = None => c.size = [w |-> 0, h |-> 0]}
MCClips ==
  {c \in MCTimes : c.profile = "original" => ~c.limit /\ c.boxes = << >>} \cup MCImages
=============================================================================
