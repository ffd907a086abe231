---------------------------- MODULE MCSvgToImage ----------------------------
EXTENDS SvgToImage

\* Sizes of 0, 0.5, 1, 2 and 2.5 units on each side: a side that truncates to
\* zero, square and non-square images up to 2 x 2 pixels.
MCSvgSizes == [w : {0, 5, 10, 20, 25}, h : {0, 5, 10, 20, 25}]

=============================================================================
