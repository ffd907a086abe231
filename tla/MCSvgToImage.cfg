CONSTANT SvgSizes <- MCSvgSizes
SPECIFICATION Spec
INVARIANT ImageIsPicture
