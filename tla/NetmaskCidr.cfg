SPECIFICATION Spec
INVARIANT CidrIsPrefixLen
